---- MODULE Spec2Model ----
(***************************************************************************)
(* Model of vcp-intellicore-sdk.                                           *)
(*                                                                         *)
(* Part 1: the distributed tool channel (DistributedServerChannelSDK on    *)
(* top of BaseChannel and the WebSocketManager wiring).  Node runs every   *)
(* handler to completion on one thread, so each handler (a connection, a   *)
(* frame, a socket close, a timer callback, a call of                      *)
(* executeDistributedTool) is one atomic action.  The order of the         *)
(* statements inside a handler is kept in the per-call `trace`.            *)
(*                                                                         *)
(* Part 2: the plugin runtime (PluginRuntime) and the documented wiring of *)
(* the channel's events to it.  Every public method is one atomic action;  *)
(* what a method emits, logs and returns is kept in runtimeEmitted,        *)
(* runtimeLogged and returned.                                            *)
(*                                                                         *)
(* Part 4: the template engine (VariableEngine) and the protocol parser    *)
(* (VCPProtocolParser).  Texts are sequences of characters; a call of      *)
(* resolveAll or parseToolRequests is one atomic action whose argument and *)
(* outcome are kept in resolved and parsed.                                *)
(***************************************************************************)
EXTENDS Integers, Sequences, FiniteSets, TLC

VARIABLES
    readyState,          \* ws.readyState of every socket object
    wsServerId,          \* (ws as any).serverId
    distributedServers,  \* Map<serverId, DistributedServerInfo>
    pendingRequests,     \* Map<requestId, PendingToolRequest>
    calls,               \* the executeDistributedTool calls made so far, in call order
    emitted,             \* events emitted by the last handler, in order
    outbox,              \* frames sent by the last handler, in order
    warned               \* logger.warn / logger.error lines of the last handler

VARIABLES
    plugins,                       \* Map<id, PluginManifest>
    distributedTools,              \* Map<id, PluginManifest>
    individualPluginDescriptions,  \* Map<`VCP${id}`, description>
    messagePreprocessors,          \* Map<id, manifest>
    preprocessorOrder,             \* string[]
    serviceModules,                \* Map<id, {manifest, module}>
    staticPlaceholderValues,       \* Map<placeholder, value>
    distributedExecutor,           \* whether setDistributedExecutor was called
    runtimeEmitted,                \* events emitted by the runtime in the last step
    runtimeLogged,                 \* logger lines of the runtime in the last step (warnings,
                                   \* errors, and the info lines of the bulk methods)
    returned                       \* the last call of a runtime method and how it ended

VARIABLES
    providers,   \* VariableEngine.providers: Map<name, IVariableProvider>, in insertion order
    options,     \* VariableEngine.options
    resolved,    \* the call of resolveAll made in the last step, if any: its argument
                 \* and how it ended
    parsed       \* the last call of parseToolRequests: its argument and what it returned

VARIABLES
    localFiles,  \* the files fs.readFile finds outside the cache directory, by path
    cacheFiles,  \* the files of FileFetcher.cacheDir, by name
    stats,       \* FileFetcher.stats
    linked,      \* FileFetcher.distributedServers: null or a Map, in insertion order
    fetches,     \* the fetchFile calls made so far, in call order
    received     \* the tool_result frame handled in the last step, if any, and its socket

channelVars == <<readyState, wsServerId, distributedServers, pendingRequests,
                 calls, emitted, outbox, warned>>

registryVars == <<plugins, distributedTools, individualPluginDescriptions,
                  messagePreprocessors, preprocessorOrder, serviceModules,
                  staticPlaceholderValues>>

runtimeVars == <<registryVars, distributedExecutor, runtimeEmitted, runtimeLogged,
                 returned>>

\* the template engine and the protocol parser
textVars == <<providers, options, resolved, parsed>>

\* the file fetcher
fetchVars == <<localFiles, cacheFiles, stats, linked, fetches>>

vars == <<readyState, wsServerId, distributedServers, pendingRequests,
          calls, emitted, outbox, warned, runtimeVars, textVars, fetchVars, received>>

-----------------------------------------------------------------------------
(* Bounds of the model *)

\* number of socket objects the server accepts during a run
NumSockets == 2

\* number of executeDistributedTool calls made during a run
MaxCalls == 2

-----------------------------------------------------------------------------
(* Program constants *)

DEFAULT_TIMEOUT == 30000

-----------------------------------------------------------------------------
(* Values *)

Sockets == 1 .. NumSockets

\* a serverId is `dist-${instanceId}-${Date.now()}`, instanceId one of 10 random
\* digits: two connections accepted in the same millisecond can get the same
\* id.  The model has no clock: an id is a number, and generateServerId can
\* return a number again that it returned before.
ServerIds == 1 .. NumSockets

\* JavaScript undefined, for a serverId
Undefined == 0

\* an absent requestId (undefined, or any other falsy value)
NoRequestId == 0

\* request ids: `req-${Date.now()}-${7 base-36 digits of Math.random()}`.  The
\* 36^7 random suffixes are taken to be collision free: the id of the n-th call
\* is n.
RequestIds == 1 .. MaxCalls

\* the (toolName, timeout) arguments of executeDistributedTool: the timeout is
\* omitted (the default) or 50 ms
CallArgs == { <<"ToolA", DEFAULT_TIMEOUT>>, <<"ToolB", 50>> }

\* the tool lists a worker sends in register_tools (data.tools, by id || name)
ToolLists == {<<"ToolA", "ToolB">>}

\* tool_result frames, in the documented format: data = {requestId, status,
\* result} on success and {requestId, status, error} on failure; requestId
\* may be absent, and a worker may send any id
ToolResultFrames ==
    { [requestId |-> r, status |-> "success", result |-> "resultData", error |-> "undefined"]
        : r \in RequestIds \cup {NoRequestId} }
    \cup
    { [requestId |-> r, status |-> "error", result |-> "undefined", error |-> "errorMessage"]
        : r \in RequestIds \cup {NoRequestId} }

-----------------------------------------------------------------------------
(* Map helpers *)

MapSet(m, k, v) == [x \in (DOMAIN m) \cup {k} |-> IF x = k THEN v ELSE m[x]]

MapDelete(m, k) == [x \in (DOMAIN m) \ {k} |-> m[x]]

MapDeleteAll(m, ks) == [x \in (DOMAIN m) \ ks |-> m[x]]

EmptyMap == [x \in {} |-> Undefined]

-----------------------------------------------------------------------------
(* Initial state: a freshly constructed channel, no socket accepted yet, and *)
(* a freshly constructed runtime                                            *)

\* no runtime method was called yet
NoCall == [op |-> "none"]

\* VariableEngine: DEFAULT_OPTIONS (placeholderPattern is KeyChars below)
DEFAULT_OPTIONS ==
    [enableRecursion |-> TRUE, maxRecursionDepth |-> 10, detectCircular |-> TRUE]

\* new VariableEngine(), new VCPProtocolParser(): no provider, no call yet
TextInit ==
    /\ providers = <<>>
    /\ options = DEFAULT_OPTIONS
    /\ resolved = NoCall
    /\ parsed = NoCall

RuntimeInit ==
    /\ plugins = EmptyMap
    /\ distributedTools = EmptyMap
    /\ individualPluginDescriptions = EmptyMap
    /\ messagePreprocessors = EmptyMap
    /\ preprocessorOrder = <<>>
    /\ serviceModules = EmptyMap
    /\ staticPlaceholderValues = EmptyMap
    /\ distributedExecutor = FALSE
    /\ runtimeEmitted = <<>>
    /\ runtimeLogged = <<>>
    /\ returned = NoCall

\* no tool_result frame was handled in the last step
NoFrame == [type |-> "none"]

\* FileFetcher.distributedServers before setDistributedServers
Unlinked == [isNull |-> TRUE]

\* new FileFetcher(cacheDir) with an empty cache directory, no fetchFile call
\* yet, and no file at the paths asked for
FetchInit ==
    /\ localFiles = EmptyMap
    /\ cacheFiles = EmptyMap
    /\ stats = [hits |-> 0, misses |-> 0]
    /\ linked = Unlinked
    /\ fetches = <<>>

Init ==
    /\ RuntimeInit
    /\ TextInit
    /\ FetchInit
    /\ received = NoFrame
    /\ readyState = [w \in Sockets |-> "NONE"]
    /\ wsServerId = [w \in Sockets |-> Undefined]
    /\ distributedServers = EmptyMap
    /\ pendingRequests = EmptyMap
    /\ calls = <<>>
    /\ emitted = <<>>
    /\ outbox = <<>>
    /\ warned = <<>>

-----------------------------------------------------------------------------
(* BaseChannel.sendToClient: the frame is sent only on an OPEN socket *)

sendToClient(state, ws, frame) ==
    IF state[ws] = "OPEN" THEN <<[to |-> ws, frame |-> frame]>> ELSE <<>>

(* generateServerId: the ids a newly accepted connection can get, an id    *)
(* returned before or a new one (ids are opaque: the new one is the next    *)
(* number)                                                                  *)
UsedServerIds == { wsServerId[w] : w \in Sockets } \ {Undefined}

generateServerId ==
    UsedServerIds \cup { Cardinality(UsedServerIds) + 1 }

(* generateRequestId: the id of the next call *)
generateRequestId == Len(calls) + 1

-----------------------------------------------------------------------------
(* A connection is accepted: WebSocketManager.handleUpgrade's callback,    *)
(* BaseChannel.handleConnection, then onConnectionEstablished              *)

HandleConnection(ws) ==
    /\ readyState[ws] = "NONE"
    /\ \A w \in Sockets : w < ws => readyState[w] # "NONE"
    /\ \E serverId \in generateServerId :
        LET open == [readyState EXCEPT ![ws] = "OPEN"]
            serverInfo == [serverId |-> serverId, ws |-> ws, tools |-> <<>>]
        IN  /\ readyState' = open
            /\ wsServerId' = [wsServerId EXCEPT ![ws] = serverId]
            /\ distributedServers' = MapSet(distributedServers, serverId, serverInfo)
            /\ outbox' =
                   sendToClient(open, ws, [type |-> "connection_ack"])
                   \o sendToClient(open, ws,
                          [type |-> "connection_ack", data |-> [serverId |-> serverId]])
            /\ emitted' = <<[event |-> "server_connected", serverId |-> serverId]>>
    /\ warned' = <<>>
    /\ UNCHANGED <<pendingRequests, calls>>

-----------------------------------------------------------------------------
(* Errors *)

VCPError(code, message, details) ==
    [name |-> "VCPError", code |-> code, message |-> message, details |-> details]

\* new Error(`Server ${serverId} disconnected`)
DisconnectedError(serverId) ==
    [name |-> "Error", message |-> <<"Server", serverId, "disconnected">>]

-----------------------------------------------------------------------------
(* The promise of a call: resolve and reject settle it once, later calls of *)
(* either are ignored by the promise but still counted in `settles`         *)

Settled(call) == call.state \in {"resolved", "rejected"}

PromiseResolve(call, value) ==
    [call EXCEPT !.state   = IF Settled(call) THEN @ ELSE "resolved",
                 !.value   = IF Settled(call) THEN @ ELSE [value |-> value],
                 !.settles = @ + 1,
                 !.trace   = Append(@, "resolve")]

PromiseReject(call, error) ==
    [call EXCEPT !.state   = IF Settled(call) THEN @ ELSE "rejected",
                 !.value   = IF Settled(call) THEN @ ELSE error,
                 !.settles = @ + 1,
                 !.trace   = Append(@, "reject")]

\* a clearTimeout that leaves the timer armed
ClearTimeout_StillArmed(call) == [call EXCEPT !.trace = Append(@, "clearTimeout")]

\* clearTimeout(pending.timeout): an armed timer never runs its callback
ClearTimeout(call) ==
    [call EXCEPT !.timer = IF @ = "armed" THEN "cleared" ELSE @,
                 !.trace = Append(@, "clearTimeout")]

\* this.pendingRequests.delete(requestId), as a statement of a call's trace
TraceDelete(call) == [call EXCEPT !.trace = Append(@, "delete")]

-----------------------------------------------------------------------------
(* register_tools *)

handleRegisterTools(ws, serverId, tools) ==
    IF serverId \notin DOMAIN distributedServers
    THEN /\ UNCHANGED distributedServers
         /\ outbox' = <<>>
         /\ emitted' = <<>>
         /\ warned' = <<[text |-> "Server info not found", id |-> serverId]>>
    ELSE /\ distributedServers' =
                [distributedServers EXCEPT ![serverId].tools = tools]
         /\ outbox' = sendToClient(readyState, ws,
                [type |-> "register_ack",
                 data |-> [tools |-> tools, count |-> Len(tools)]])
         /\ emitted' = <<[event |-> "tools_registered", serverId |-> serverId,
                         tools |-> tools]>>
         /\ warned' = <<>>

OnRegisterTools(ws) ==
    /\ readyState[ws] \in {"OPEN", "CLOSING"}
    /\ \E tools \in ToolLists : handleRegisterTools(ws, wsServerId[ws], tools)
    /\ UNCHANGED <<readyState, wsServerId, pendingRequests, calls>>

-----------------------------------------------------------------------------
(* tool_result *)

\* handleToolResult that takes the replies to arrive in the order of the calls:
\* a reply that names a pending request settles the oldest pending one
handleToolResult_Oldest(serverId, message) ==
    IF message.requestId = NoRequestId
    THEN /\ emitted' = <<[event |-> "async_tool_result", serverId |-> serverId,
                         result |-> message]>>
         /\ warned' = <<>>
         /\ UNCHANGED <<pendingRequests, calls>>
    ELSE IF message.requestId \notin DOMAIN pendingRequests
    THEN /\ emitted' = <<>>
         /\ warned' = <<[text |-> "Received result for unknown requestId",
                        id |-> message.requestId]>>
         /\ UNCHANGED <<pendingRequests, calls>>
    ELSE LET oldest == CHOOSE r \in DOMAIN pendingRequests :
                           \A q \in DOMAIN pendingRequests : r <= q
             c == pendingRequests[oldest].call
         IN  /\ pendingRequests' = MapDelete(pendingRequests, oldest)
             /\ calls' = [calls EXCEPT ![c] =
                    PromiseResolve(TraceDelete(ClearTimeout(@)), message.result)]
             /\ emitted' = <<>>
             /\ warned' = <<>>

\* handleToolResult without the `if (!requestId)` branch
handleToolResult_NoAsyncBranch(serverId, message) ==
    IF message.requestId \notin DOMAIN pendingRequests
    THEN /\ emitted' = <<>>
         /\ warned' = <<[text |-> "Received result for unknown requestId",
                        id |-> message.requestId]>>
         /\ UNCHANGED <<pendingRequests, calls>>
    ELSE LET pending == pendingRequests[message.requestId]
             c == pending.call
         IN  /\ pendingRequests' = MapDelete(pendingRequests, message.requestId)
             /\ calls' = [calls EXCEPT ![c] =
                    PromiseResolve(TraceDelete(ClearTimeout(@)), message.result)]
             /\ emitted' = <<>>
             /\ warned' = <<>>

handleToolResult(serverId, message) ==
    IF message.requestId = NoRequestId
    THEN /\ emitted' = <<[event |-> "async_tool_result", serverId |-> serverId,
                         result |-> message]>>
         /\ warned' = <<>>
         /\ UNCHANGED <<pendingRequests, calls>>
    ELSE IF message.requestId \notin DOMAIN pendingRequests
    THEN /\ emitted' = <<>>
         /\ warned' = <<[text |-> "Received result for unknown requestId",
                        id |-> message.requestId]>>
         /\ UNCHANGED <<pendingRequests, calls>>
    ELSE LET pending == pendingRequests[message.requestId]
             c == pending.call
         IN  /\ pendingRequests' = MapDelete(pendingRequests, message.requestId)
             /\ calls' = [calls EXCEPT ![c] =
                    PromiseResolve(TraceDelete(ClearTimeout(@)), message.result)]
             /\ emitted' = <<>>
             /\ warned' = <<>>

\* onMessage for a tool_result frame `message` arriving on socket ws
OnToolResultFrame(ws, message) ==
    /\ readyState[ws] \in {"OPEN", "CLOSING"}
    /\ handleToolResult(wsServerId[ws], message)
    /\ outbox' = <<>>
    /\ UNCHANGED <<readyState, wsServerId, distributedServers>>

OnToolResult(ws) == \E message \in ToolResultFrames : OnToolResultFrame(ws, message)

-----------------------------------------------------------------------------
(* executeDistributedTool *)

NewCall(serverId, toolName, timeout) ==
    [serverId |-> serverId, toolName |-> toolName, timeout |-> timeout,
     requestId |-> NoRequestId, ws |-> 0, state |-> "pending",
     value |-> [value |-> "undefined"], settles |-> 0, timer |-> "none",
     trace |-> <<>>]

\* the code path of executeDistributedTool that creates the pending request,
\* with the statements of the promise executor in the order `order` and the
\* timer in state `timer`
CreatePending(serverId, toolName, timeout, order, timer) ==
    LET requestId == generateRequestId
        ws == distributedServers[serverId].ws
        frames == sendToClient(readyState, ws,
                     [type |-> "execute_tool",
                      data |-> [requestId |-> requestId, toolName |-> toolName]])
    IN  /\ calls' = Append(calls,
               [NewCall(serverId, toolName, timeout) EXCEPT
                   !.requestId = requestId,
                   !.ws = ws,
                   !.timer = timer,
                   !.trace = SelectSeq(order,
                                LAMBDA st : st # "send" \/ frames # <<>>)])
        /\ pendingRequests' = MapSet(pendingRequests, requestId,
               [requestId |-> requestId, call |-> Len(calls) + 1])
        /\ outbox' = frames

NotConnected(serverId, toolName, timeout) ==
    /\ calls' = Append(calls,
           PromiseReject(NewCall(serverId, toolName, timeout),
               VCPError("DISTRIBUTED_CONNECTION_ERROR", "not connected",
                        [serverId |-> serverId])))
    /\ outbox' = <<>>
    /\ UNCHANGED pendingRequests

\* executeDistributedTool without the readyState check
executeDistributedTool_NoReadyStateCheck(serverId, toolName, timeout) ==
    IF serverId \notin DOMAIN distributedServers
    THEN NotConnected(serverId, toolName, timeout)
    ELSE CreatePending(serverId, toolName, timeout,
                       <<"setTimeout", "set", "send">>, "armed")

\* executeDistributedTool that arms no timer
executeDistributedTool_NoTimer(serverId, toolName, timeout) ==
    IF serverId \notin DOMAIN distributedServers
    THEN NotConnected(serverId, toolName, timeout)
    ELSE IF readyState[distributedServers[serverId].ws] # "OPEN"
    THEN NotConnected(serverId, toolName, timeout)
    ELSE CreatePending(serverId, toolName, timeout, <<"set", "send">>, "none")

\* executeDistributedTool that sends the frame before it stores the request
executeDistributedTool_SendFirst(serverId, toolName, timeout) ==
    IF serverId \notin DOMAIN distributedServers
    THEN NotConnected(serverId, toolName, timeout)
    ELSE IF readyState[distributedServers[serverId].ws] # "OPEN"
    THEN NotConnected(serverId, toolName, timeout)
    ELSE CreatePending(serverId, toolName, timeout,
                       <<"setTimeout", "send", "set">>, "armed")

executeDistributedTool(serverId, toolName, timeout) ==
    IF serverId \notin DOMAIN distributedServers
    THEN NotConnected(serverId, toolName, timeout)
    ELSE IF readyState[distributedServers[serverId].ws] # "OPEN"
    THEN /\ calls' = Append(calls,
                PromiseReject(NewCall(serverId, toolName, timeout),
                    VCPError("DISTRIBUTED_CONNECTION_ERROR", "connection not open",
                             [serverId |-> serverId,
                              readyState |-> readyState[distributedServers[serverId].ws]])))
         /\ outbox' = <<>>
         /\ UNCHANGED pendingRequests
    ELSE CreatePending(serverId, toolName, timeout,
                       <<"setTimeout", "set", "send">>, "armed")

\* a call executeDistributedTool(serverId, toolName, args, timeout) by the application
ExecuteCall(serverId, toolName, timeout) ==
    /\ Len(calls) < MaxCalls
    /\ executeDistributedTool(serverId, toolName, timeout)
    /\ emitted' = <<>>
    /\ warned' = <<>>
    /\ UNCHANGED <<readyState, wsServerId, distributedServers>>

ExecuteDistributedTool ==
    \E serverId \in ServerIds, args \in CallArgs : ExecuteCall(serverId, args[1], args[2])

-----------------------------------------------------------------------------
(* The setTimeout callback of call c *)

\* a timer callback that rejects and leaves the record in the table
timeoutCallback_KeepsRecord(c) ==
    LET call == calls[c]
    IN  /\ UNCHANGED pendingRequests
        /\ calls' = [calls EXCEPT ![c] =
                PromiseReject([@ EXCEPT !.timer = "fired"],
                    VCPError("DISTRIBUTED_TIMEOUT", "timeout",
                             [serverId |-> call.serverId, toolName |-> call.toolName,
                              requestId |-> call.requestId, timeout |-> call.timeout]))]

timeoutCallback(c) ==
    LET call == calls[c]
    IN  /\ pendingRequests' = MapDelete(pendingRequests, call.requestId)
        /\ calls' = [calls EXCEPT ![c] =
                PromiseReject([TraceDelete(@) EXCEPT !.timer = "fired"],
                    VCPError("DISTRIBUTED_TIMEOUT", "timeout",
                             [serverId |-> call.serverId, toolName |-> call.toolName,
                              requestId |-> call.requestId, timeout |-> call.timeout]))]

TimerFires(c) ==
    /\ c \in DOMAIN calls
    /\ calls[c].timer = "armed"
    /\ timeoutCallback(c)
    /\ emitted' = <<>>
    /\ outbox' = <<>>
    /\ warned' = <<>>
    /\ UNCHANGED <<readyState, wsServerId, distributedServers>>

-----------------------------------------------------------------------------
(* The socket closes *)

\* a forEach that stops after the first entry it deletes
cleanupTargets_First(serverId) ==
    { r \in DOMAIN pendingRequests : \A q \in DOMAIN pendingRequests : r <= q }

\* the pending requests the forEach of cleanupPendingRequests visits
cleanupTargets(serverId) == DOMAIN pendingRequests

cleanupPendingRequests(serverId) ==
    LET targets == cleanupTargets(serverId)
        cleaned == { pendingRequests[r].call : r \in targets }
    IN  /\ calls' = [c \in DOMAIN calls |->
                IF c \in cleaned
                THEN TraceDelete(PromiseReject(ClearTimeout(calls[c]),
                                               DisconnectedError(serverId)))
                ELSE calls[c]]
        /\ pendingRequests' = MapDeleteAll(pendingRequests, targets)

onConnectionClosed(ws) ==
    LET serverId == wsServerId[ws]
    IN  IF serverId = Undefined
        THEN /\ emitted' = <<>>
             /\ UNCHANGED <<distributedServers, pendingRequests, calls>>
        ELSE /\ IF serverId \in DOMAIN distributedServers
                THEN /\ emitted' =
                           IF Len(distributedServers[serverId].tools) > 0
                           THEN <<[event |-> "tools_unregistered",
                                   serverId |-> serverId,
                                   tools |-> distributedServers[serverId].tools]>>
                           ELSE <<>>
                     /\ distributedServers' = MapDelete(distributedServers, serverId)
                ELSE /\ emitted' = <<>>
                     /\ UNCHANGED distributedServers
             /\ cleanupPendingRequests(serverId)

\* the close handshake starts (ws.close() at shutdown, or the peer's close frame)
BeginClose(ws) ==
    /\ readyState[ws] = "OPEN"
    /\ readyState' = [readyState EXCEPT ![ws] = "CLOSING"]
    /\ UNCHANGED <<wsServerId, distributedServers, pendingRequests, calls,
                   emitted, outbox, warned>>

\* the socket's 'close' event: WebSocketManager -> handleClose -> onConnectionClosed
HandleClose(ws) ==
    /\ readyState[ws] \in {"OPEN", "CLOSING"}
    /\ readyState' = [readyState EXCEPT ![ws] = "CLOSED"]
    /\ onConnectionClosed(ws)
    /\ outbox' = <<>>
    /\ warned' = <<>>
    /\ UNCHANGED <<wsServerId>>

-----------------------------------------------------------------------------

\* the channel on its own: no listener is attached to its events, the runtime
\* is not touched
Next ==
    \/ \E ws \in Sockets : HandleConnection(ws) /\ UNCHANGED <<runtimeVars, textVars, fetchVars, received>>
    \/ \E ws \in Sockets : OnRegisterTools(ws) /\ UNCHANGED <<runtimeVars, textVars, fetchVars, received>>
    \/ \E ws \in Sockets : OnToolResult(ws) /\ UNCHANGED <<runtimeVars, textVars, fetchVars, received>>
    \/ ExecuteDistributedTool /\ UNCHANGED <<runtimeVars, textVars, fetchVars, received>>
    \/ \E c \in 1 .. MaxCalls : TimerFires(c) /\ UNCHANGED <<runtimeVars, textVars, fetchVars, received>>
    \/ \E ws \in Sockets : BeginClose(ws) /\ UNCHANGED <<runtimeVars, textVars, fetchVars, received>>
    \/ \E ws \in Sockets : HandleClose(ws) /\ UNCHANGED <<runtimeVars, textVars, fetchVars, received>>

Spec == Init /\ [][Next]_vars

-----------------------------------------------------------------------------
(* Claims about the distributed tool channel *)

\* the calls for which executeDistributedTool created a pending request
Created == { c \in DOMAIN calls : calls[c].requestId # NoRequestId }

TimeoutError(call) ==
    VCPError("DISTRIBUTED_TIMEOUT", "timeout",
             [serverId |-> call.serverId, toolName |-> call.toolName,
              requestId |-> call.requestId, timeout |-> call.timeout])

\* C1: every pending request created by executeDistributedTool is settled at
\* most once, by a matching tool_result (resolve), by its timeout or by the
\* disconnect cleanup (reject); it is in pendingRequests exactly as long as it
\* is not settled, so the step that settles it removes it, and its timer is
\* armed exactly as long as it is not settled, so no later step settles it again.
C1_SettledExactlyOnce ==
    \A c \in Created :
        LET call == calls[c]
        IN  /\ call.settles <= 1
            /\ (call.settles = 0) <=> (call.state = "pending")
            /\ (call.state = "pending") <=> (call.requestId \in DOMAIN pendingRequests)
            /\ (call.state = "pending") <=> (call.timer = "armed")
            /\ call.requestId \in DOMAIN pendingRequests
                   => pendingRequests[call.requestId].call = c
            /\ call.state = "resolved" => call.timer = "cleared"
            /\ call.state = "rejected" =>
                   \/ call.timer = "fired" /\ call.value = TimeoutError(call)
                   \/ call.timer = "cleared"
                      /\ \E sid \in ServerIds : call.value = DisconnectedError(sid)

\* C1 witness: one request settled by a tool_result and another by its timer,
\* and the table is empty
C1_Witness ==
    /\ \E c1 \in Created, c2 \in Created :
        /\ calls[c1].state = "resolved"
        /\ calls[c2].state = "rejected" /\ calls[c2].timer = "fired"
    /\ DOMAIN pendingRequests = {}

-----------------------------------------------------------------------------

\* C2: when a worker's socket closes, every call issued to that session that
\* is still pending is rejected by that step with `Server <id> disconnected`,
\* and its timer is cancelled.
C2_DisconnectRejectsPending ==
    [][\A ws \in Sockets : HandleClose(ws) =>
          \A c \in Created :
              (calls[c].state = "pending" /\ calls[c].serverId = wsServerId[ws]) =>
                  /\ calls'[c].state = "rejected"
                  /\ calls'[c].value = DisconnectedError(wsServerId[ws])
                  /\ calls'[c].timer = "cleared"
                  /\ calls'[c].settles = 1]_vars

\* C2 witness: two calls sent on one socket, both rejected by its close
C2_Witness ==
    \E c1 \in Created, c2 \in Created :
        /\ c1 # c2
        /\ calls[c1].ws = calls[c2].ws
        /\ readyState[calls[c1].ws] = "CLOSED"
        /\ \A c \in {c1, c2} :
            /\ calls[c].state = "rejected"
            /\ calls[c].value = DisconnectedError(calls[c].serverId)
            /\ calls[c].timer = "cleared"

\* C3 (as claimed): when a session closes, a request in flight to a different,
\* still connected session is left alone: it stays pending and in
\* pendingRequests.
C3_OtherSessionsUntouched ==
    [][\A ws \in Sockets : HandleClose(ws) =>
          \A c \in Created :
              (/\ calls[c].state = "pending"
               /\ calls[c].ws # ws
               /\ calls[c].serverId # wsServerId[ws]
               /\ readyState[calls[c].ws] = "OPEN"
               /\ calls[c].serverId \in DOMAIN distributedServers) =>
                  /\ calls'[c] = calls[c]
                  /\ calls[c].requestId \in DOMAIN pendingRequests']_vars

\* C4 (as claimed): a tool_result that matches a pending request resolves the
\* call with `result` when status is 'success' and rejects it with `error`
\* otherwise.
C4_StatusDecidesOutcome ==
    [][\A ws \in Sockets, m \in ToolResultFrames :
          (OnToolResultFrame(ws, m) /\ m.requestId \in DOMAIN pendingRequests) =>
              LET c == pendingRequests[m.requestId].call
              IN  IF m.status = "success"
                  THEN /\ calls'[c].state = "resolved"
                       /\ calls'[c].value = [value |-> m.result]
                  ELSE /\ calls'[c].state = "rejected"
                       /\ calls'[c].value = [value |-> m.error]]_vars

C6_TimeoutRejects ==
    \A c \in Created :
        calls[c].timer = "fired" =>
            /\ calls[c].state = "rejected"
            /\ calls[c].value =
                   VCPError("DISTRIBUTED_TIMEOUT", "timeout",
                            [serverId |-> calls[c].serverId,
                             toolName |-> calls[c].toolName,
                             requestId |-> calls[c].requestId,
                             timeout |-> calls[c].timeout])
            /\ calls[c].requestId \notin DOMAIN pendingRequests

\* C6 witness: a call with a 50 ms timeout timed out while its worker stayed
\* connected
C6_Witness ==
    \E c \in Created :
        /\ calls[c].timer = "fired"
        /\ calls[c].timeout = 50
        /\ readyState[calls[c].ws] = "OPEN"
        /\ calls[c].serverId \in DOMAIN distributedServers

\* The channel under the assumption that an armed timer eventually fires
\* (Node runs the callback of a timer that is not cleared).
SpecFair ==
    /\ Init /\ [][Next]_vars
    /\ \A c \in 1 .. MaxCalls : WF_vars(TimerFires(c) /\ UNCHANGED <<runtimeVars, textVars, fetchVars, received>>)

\* C7: every executeDistributedTool call eventually settles, and its pending
\* record is eventually gone, also when the worker never answers (given that
\* an armed timer eventually fires).
C7_EventuallySettles ==
    \A c \in 1 .. MaxCalls :
        (c \in DOMAIN calls) ~>
            (/\ c \in DOMAIN calls
             /\ Settled(calls[c])
             /\ calls[c].requestId \notin DOMAIN pendingRequests)

\* C7 witness: all calls of the run were made and have ended, one of them by
\* its timer, and the table is empty
C7_Witness ==
    /\ Len(calls) = MaxCalls
    /\ \A c \in DOMAIN calls : Settled(calls[c])
    /\ \E c \in Created : calls[c].timer = "fired"
    /\ DOMAIN pendingRequests = {}

\* C8: a tool_result whose requestId has no pending record settles no call and
\* changes neither pendingRequests nor the session table; a tool_result without
\* requestId emits async_tool_result and nothing else, and touches no pending
\* record.
C8_UnknownResultIgnored ==
    [][\A ws \in Sockets, m \in ToolResultFrames : OnToolResultFrame(ws, m) =>
          /\ m.requestId = NoRequestId =>
                /\ calls' = calls
                /\ pendingRequests' = pendingRequests
                /\ distributedServers' = distributedServers
                /\ emitted' = <<[event |-> "async_tool_result",
                                serverId |-> wsServerId[ws], result |-> m]>>
          /\ (m.requestId # NoRequestId /\ m.requestId \notin DOMAIN pendingRequests) =>
                /\ calls' = calls
                /\ pendingRequests' = pendingRequests
                /\ distributedServers' = distributedServers
                /\ emitted' = <<>>]_vars

\* C8 witness: a reply arrived for a request that had timed out, while another
\* request was pending
C8_Witness ==
    /\ Len(warned) = 1
    /\ warned[1].text = "Received result for unknown requestId"
    /\ \E c \in Created :
        /\ calls[c].requestId = warned[1].id
        /\ calls[c].timer = "fired"
    /\ DOMAIN pendingRequests # {}

Before(t, a, b) == \A i \in DOMAIN t, j \in DOMAIN t : (t[i] = a /\ t[j] = b) => i < j

Has(t, a) == \E i \in DOMAIN t : t[i] = a

\* C10 (as claimed): the record is put into pendingRequests before the frame is
\* sent, and on every path it is deleted before the promise is settled.
C10_DeletedBeforeSettled ==
    \A c \in Created :
        LET t == calls[c].trace
        IN  /\ Has(t, "set") /\ Before(t, "set", "send")
            /\ Settled(calls[c]) => Has(t, "delete")
            /\ Before(t, "delete", "resolve")
            /\ Before(t, "delete", "reject")

\* C10 (amended): the record is put into pendingRequests before the frame is
\* sent; on the success and timeout paths it is deleted before the promise is
\* settled; on the disconnect path it is deleted right after the reject, by the
\* same handler, so that it is gone when the handler returns.
C10_RecordLifetime ==
    \A c \in Created :
        LET t == calls[c].trace
            n == Len(t)
        IN  /\ Has(t, "set") /\ Before(t, "set", "send")
            /\ Has(t, "send") <=> calls[c].ws \in Sockets
            /\ Settled(calls[c]) =>
                   Has(t, "delete") /\ calls[c].requestId \notin DOMAIN pendingRequests
            /\ calls[c].state = "resolved" => Before(t, "delete", "resolve")
            /\ calls[c].timer = "fired" => Before(t, "delete", "reject")
            /\ (calls[c].state = "rejected" /\ calls[c].timer = "cleared") =>
                   /\ n >= 3
                   /\ <<t[n - 2], t[n - 1], t[n]>> = <<"clearTimeout", "reject", "delete">>

\* C10 witness: one call settled on the success path and one on the disconnect
\* path
C10_Witness ==
    \E c1 \in Created, c2 \in Created :
        /\ calls[c1].state = "resolved"
        /\ calls[c2].state = "rejected" /\ calls[c2].timer = "cleared"
        /\ Has(calls[c1].trace, "send") /\ Has(calls[c2].trace, "send")

-----------------------------------------------------------------------------

\* C11 (as claimed): whenever a worker session's socket closes, a
\* tools_unregistered event with the session's id and its current tool list is
\* emitted by that step, and the session id is not in the session table
\* (getDistributedServers) afterwards.
C11_CloseEmitsToolsUnregistered ==
    [][\A ws \in Sockets : HandleClose(ws) =>
          LET serverId == wsServerId[ws]
          IN  /\ \E i \in DOMAIN emitted' :
                    /\ emitted'[i].event = "tools_unregistered"
                    /\ emitted'[i].serverId = serverId
                    /\ serverId \in DOMAIN distributedServers =>
                           emitted'[i].tools = distributedServers[serverId].tools
              /\ serverId \notin DOMAIN distributedServers']_vars


-----------------------------------------------------------------------------
(***************************************************************************)
(* Part 2: the plugin runtime                                              *)
(***************************************************************************)

(* Bounds of the model *)

\* length up to which preprocessorOrder grows during a run
MaxPreprocessorOrder == 2

-----------------------------------------------------------------------------
(* Values *)

\* plugin ids; a name can serve as an id (VCPToolBox tools carry only a name),
\* so names are drawn from the same set
PluginIds == {"A", "B"}

\* a string field that is absent (undefined) or empty: falsy either way
Missing == ""

\* capabilities.invocationCommands: a command with a description, and one
\* without
Described(text) == [command |-> "run", description |-> text, example |-> Missing]

Undescribed == [command |-> "probe", description |-> Missing, example |-> Missing]

\* a PluginManifest; hasCommands is whether capabilities?.invocationCommands
\* is defined, `processor` and `placeholders` are the untyped properties that
\* processMessages and registerStaticPlugin read
Manifest(id, name, type, hasCommands, commands) ==
    [id |-> id, name |-> name, type |-> type,
     hasCommands |-> hasCommands, commands |-> commands,
     serverId |-> Undefined, processor |-> "none", placeholders |-> EmptyMap]

\* the six plugin types of the PluginManifest interface
PluginTypes == {"direct", "distributed", "preprocessor", "service", "static", "internal"}

\* what a preprocessor's `processor` does with the message list: "append"
\* returns the list with the plugin's id appended, "throws" throws, "none" is a
\* manifest without a processor
Processors == {"append", "throws", "none"}

\* valid manifests given to registerPlugin, by type
DirectManifest(id) == Manifest(id, id, "direct", TRUE, <<Described("direct tool")>>)

DistributedPluginManifest(id, hasCommands) ==
    Manifest(id, id, "distributed", hasCommands,
             IF hasCommands THEN <<Described("remote tool")>> ELSE <<>>)

ServiceManifest(id) == Manifest(id, id, "service", FALSE, <<>>)

StaticManifest(id) ==
    [Manifest(id, id, "static", FALSE, <<>>) EXCEPT
        !.placeholders = [k \in {"StaticValue"} |-> id]]

InternalManifest(id) ==
    Manifest(id, id, "internal", TRUE, <<Undescribed, Described("internal tool")>>)

PreprocessorManifest(id, processor) ==
    [Manifest(id, id, "preprocessor", TRUE, <<>>) EXCEPT !.processor = processor]

\* manifests that fail validation: no id, no name, no type, an unknown type
InvalidManifests ==
    { Manifest(Missing, "A", "direct", TRUE, <<Described("direct tool")>>),
      Manifest("A", Missing, "direct", TRUE, <<Described("direct tool")>>),
      Manifest("A", "A", Missing, TRUE, <<Described("direct tool")>>),
      Manifest("A", "A", "hybrid", TRUE, <<Described("direct tool")>>) }

\* a descriptor a worker sends in register_tools: with id and name, with a
\* name only (the VCPToolBox format) when id is Missing, without a name when
\* name is Missing
ToolDescriptor(id, name) ==
    Manifest(id, name, Missing, TRUE, <<Described("worker tool")>>)

\* the batches of descriptors of one register_tools frame or
\* registerDistributedTools call
ToolBatches ==
    { <<>>,
      <<ToolDescriptor("A", "A")>>,
      <<ToolDescriptor("A", "A"), ToolDescriptor("B", "B")>>,
      <<ToolDescriptor(Missing, "B"), ToolDescriptor("A", "A")>>,
      <<ToolDescriptor("A", Missing), ToolDescriptor("B", "B")>> }

\* name: `[云端] ${toolManifest.name}` ("[云端]" is "[cloud]")
CloudName(name) ==
    CASE name = "A" -> "[cloud] A"
      [] name = "B" -> "[cloud] B"
      [] OTHER -> "[cloud] "

-----------------------------------------------------------------------------
(* rebuildVCPDescriptions: the catalog is computed from the plugin table *)

\* the block rendered for one command of a plugin:
\* `- ${name} (${id}) - 命令: ${command || 'N/A'}:` followed by the indented
\* description and, if there is one, the indented example
CommandDescription(plugin, cmd) ==
    [name |-> plugin.name, id |-> plugin.id,
     command |-> IF cmd.command = Missing THEN "N/A" ELSE cmd.command,
     description |-> cmd.description, example |-> cmd.example]

\* pluginDescriptions of one plugin: one block per command that has a
\* description, in the order of the commands (joined with a blank line)
PluginDescriptions(plugin) ==
    LET described == SelectSeq(plugin.commands, LAMBDA cmd : cmd.description # Missing)
    IN  [i \in 1 .. Len(described) |-> CommandDescription(plugin, described[i])]

\* the key `VCP${plugin.id}`
PlaceholderKey(id) == <<"VCP", id>>

\* a rebuild that keeps the entries it finds and adds the missing ones
rebuildVCPDescriptions_KeepsOld(table) ==
    LET withDescriptions ==
            { id \in DOMAIN table :
                /\ table[id].hasCommands
                /\ Len(table[id].commands) > 0
                /\ Len(PluginDescriptions(table[id])) > 0 }
    IN  [key \in { PlaceholderKey(id) : id \in withDescriptions }
                 \cup DOMAIN individualPluginDescriptions |->
            IF key \in DOMAIN individualPluginDescriptions
            THEN individualPluginDescriptions[key]
            ELSE PluginDescriptions(table[key[2]])]

\* the value of individualPluginDescriptions after rebuildVCPDescriptions()
\* has run on the plugin table `table`
rebuildVCPDescriptions(table) ==
    LET withDescriptions ==
            { id \in DOMAIN table :
                /\ table[id].hasCommands
                /\ Len(table[id].commands) > 0
                /\ Len(PluginDescriptions(table[id])) > 0 }
    IN  [key \in { PlaceholderKey(id) : id \in withDescriptions } |->
            PluginDescriptions(table[key[2]])]

-----------------------------------------------------------------------------
(* registerPlugin *)

\* a call of a runtime method that returned (or whose promise resolved)
Returned(op, value) == [op |-> op, status |-> "returned", value |-> value]

\* a call of a runtime method that threw (or whose promise rejected)
Threw(op, error) == [op |-> op, status |-> "threw", value |-> error]

NoValue == [value |-> "undefined"]

\* the error validateManifest throws, or NoValue if it returns
validateManifest(manifest) ==
    IF manifest.id = Missing
    THEN VCPError("INVALID_PLUGIN_MANIFEST", "missing required field: id",
                  [manifest |-> manifest.id])
    ELSE IF manifest.name = Missing
    THEN VCPError("INVALID_PLUGIN_MANIFEST", "missing required field: name",
                  [manifest |-> manifest.id])
    ELSE IF manifest.type = Missing
    THEN VCPError("INVALID_PLUGIN_MANIFEST", "missing required field: type",
                  [manifest |-> manifest.id])
    ELSE NoValue

registerDistributedPlugin(manifest) ==
    /\ IF ~manifest.hasCommands
       THEN /\ runtimeLogged' = <<[text |-> "has no invocationCommands", id |-> manifest.id]>>
            /\ UNCHANGED distributedTools
       ELSE /\ runtimeLogged' = <<>>
            /\ distributedTools' = MapSet(distributedTools, manifest.id, manifest)
    /\ UNCHANGED <<messagePreprocessors, preprocessorOrder, serviceModules,
                   staticPlaceholderValues>>

registerPreprocessorPlugin(manifest) ==
    /\ messagePreprocessors' = MapSet(messagePreprocessors, manifest.id, manifest)
    /\ preprocessorOrder' = Append(preprocessorOrder, manifest.id)
    /\ runtimeLogged' = <<>>
    /\ UNCHANGED <<distributedTools, serviceModules, staticPlaceholderValues>>

registerServicePlugin(manifest) ==
    /\ serviceModules' = MapSet(serviceModules, manifest.id, [manifest |-> manifest])
    /\ runtimeLogged' = <<>>
    /\ UNCHANGED <<distributedTools, messagePreprocessors, preprocessorOrder,
                   staticPlaceholderValues>>

registerStaticPlugin(manifest) ==
    /\ staticPlaceholderValues' =
           [key \in DOMAIN staticPlaceholderValues \cup DOMAIN manifest.placeholders |->
               IF key \in DOMAIN manifest.placeholders
               THEN manifest.placeholders[key]
               ELSE staticPlaceholderValues[key]]
    /\ runtimeLogged' = <<>>
    /\ UNCHANGED <<distributedTools, messagePreprocessors, preprocessorOrder,
                   serviceModules>>

\* registerDirectPlugin and registerInternalPlugin only log
registerDirectPlugin(manifest) ==
    /\ runtimeLogged' = <<>>
    /\ UNCHANGED <<distributedTools, messagePreprocessors, preprocessorOrder,
                   serviceModules, staticPlaceholderValues>>

\* the catch block of registerPlugin: nothing was stored before the throw
registerPluginFailed(manifest, error) ==
    /\ runtimeLogged' = <<[text |-> "Failed to register plugin", id |-> manifest.id]>>
    /\ runtimeEmitted' = <<>>
    /\ returned' = Threw("registerPlugin",
           VCPError("PLUGIN_LOAD_ERROR", "Failed to register plugin",
                    [error |-> error, manifest |-> manifest.id]))
    /\ UNCHANGED registryVars

\* a registerPlugin that stores the manifest before it validates it
registerPlugin_StoresFirst(manifest) ==
    LET invalid == validateManifest(manifest)
    IN  IF invalid # NoValue \/ manifest.type \notin PluginTypes
        THEN /\ runtimeLogged' = <<[text |-> "Failed to register plugin", id |-> manifest.id]>>
             /\ runtimeEmitted' = <<>>
             /\ returned' = Threw("registerPlugin",
                    VCPError("PLUGIN_LOAD_ERROR", "Failed to register plugin",
                             [error |-> invalid, manifest |-> manifest.id]))
             /\ plugins' = MapSet(plugins, manifest.id, manifest)
             /\ individualPluginDescriptions' = rebuildVCPDescriptions(plugins')
             /\ UNCHANGED <<distributedTools, messagePreprocessors, preprocessorOrder,
                            serviceModules, staticPlaceholderValues>>
        ELSE /\ CASE manifest.type = "distributed" -> registerDistributedPlugin(manifest)
                  [] manifest.type = "preprocessor" -> registerPreprocessorPlugin(manifest)
                  [] manifest.type = "service" -> registerServicePlugin(manifest)
                  [] manifest.type = "static" -> registerStaticPlugin(manifest)
                  [] OTHER -> registerDirectPlugin(manifest)
             /\ plugins' = MapSet(plugins, manifest.id, manifest)
             /\ individualPluginDescriptions' = rebuildVCPDescriptions(plugins')
             /\ runtimeEmitted' = <<[event |-> "plugin_registered", plugin |-> manifest]>>
             /\ returned' = Returned("registerPlugin", NoValue)

registerPlugin(manifest) ==
    LET invalid == validateManifest(manifest)
    IN  IF invalid # NoValue
        THEN registerPluginFailed(manifest, invalid)
        ELSE IF manifest.type \notin PluginTypes
        THEN registerPluginFailed(manifest,
                 VCPError("INVALID_PLUGIN_MANIFEST", "Unknown plugin type",
                          [manifest |-> manifest.id]))
        ELSE /\ CASE manifest.type = "distributed" -> registerDistributedPlugin(manifest)
                  [] manifest.type = "preprocessor" -> registerPreprocessorPlugin(manifest)
                  [] manifest.type = "service" -> registerServicePlugin(manifest)
                  [] manifest.type = "static" -> registerStaticPlugin(manifest)
                  [] OTHER -> registerDirectPlugin(manifest)
             /\ plugins' = MapSet(plugins, manifest.id, manifest)
             /\ individualPluginDescriptions' = rebuildVCPDescriptions(plugins')
             /\ runtimeEmitted' = <<[event |-> "plugin_registered", plugin |-> manifest]>>
             /\ returned' = Returned("registerPlugin", NoValue)

\* a call registerPlugin(manifest) by the application
RegisterPlugin(manifest) ==
    /\ manifest.type = "preprocessor" => Len(preprocessorOrder) < MaxPreprocessorOrder
    /\ registerPlugin(manifest)
    /\ UNCHANGED <<channelVars, textVars, fetchVars, received, distributedExecutor>>

-----------------------------------------------------------------------------
(* unloadPlugin *)

\* preprocessorOrder.splice(indexOf(name), 1): the first occurrence is removed
RemoveFirst(seq, x) ==
    IF \E i \in DOMAIN seq : seq[i] = x
    THEN LET first == CHOOSE i \in DOMAIN seq :
                          seq[i] = x /\ \A j \in 1 .. i - 1 : seq[j] # x
         IN  SubSeq(seq, 1, first - 1) \o SubSeq(seq, first + 1, Len(seq))
    ELSE seq

unloadPlugin(name) ==
    IF name \notin DOMAIN plugins
    THEN /\ runtimeLogged' = <<[text |-> "not found for unloading", id |-> name]>>
         /\ runtimeEmitted' = <<>>
         /\ returned' = Returned("unloadPlugin", NoValue)
         /\ UNCHANGED registryVars
    ELSE LET plugin == plugins[name]
         IN  /\ distributedTools' =
                    IF plugin.type = "distributed"
                    THEN MapDelete(distributedTools, name) ELSE distributedTools
             /\ messagePreprocessors' =
                    IF plugin.type = "preprocessor"
                    THEN MapDelete(messagePreprocessors, name) ELSE messagePreprocessors
             /\ preprocessorOrder' =
                    IF plugin.type = "preprocessor"
                    THEN RemoveFirst(preprocessorOrder, name) ELSE preprocessorOrder
             /\ serviceModules' =
                    IF plugin.type = "service"
                    THEN MapDelete(serviceModules, name) ELSE serviceModules
             /\ plugins' = MapDelete(plugins, name)
             /\ individualPluginDescriptions' = rebuildVCPDescriptions(plugins')
             /\ runtimeLogged' = <<>>
             /\ runtimeEmitted' = <<[event |-> "plugin_unloaded", plugin |-> name]>>
             /\ returned' = Returned("unloadPlugin", NoValue)
             /\ UNCHANGED staticPlaceholderValues

\* a call unloadPlugin(name) by the application
UnloadPlugin(name) ==
    /\ unloadPlugin(name)
    /\ UNCHANGED <<channelVars, textVars, fetchVars, received, distributedExecutor>>

-----------------------------------------------------------------------------
(* registerDistributedTools / unregisterAllDistributedTools *)

\* the manifest stored for a worker's descriptor: { ...toolManifest,
\* type: 'distributed', serverId, name: `[云端] ${toolManifest.name}` }
DistributedManifest(serverId, toolManifest) ==
    [toolManifest EXCEPT !.type = "distributed",
                         !.serverId = serverId,
                         !.name = CloudName(toolManifest.name)]

\* a loop body that stores the descriptor whether or not the id is taken
registerToolManifest_Overwrites(acc, serverId, toolManifest) ==
    IF toolManifest.name = Missing \/ toolManifest.id = Missing
    THEN [acc EXCEPT !.logged = Append(@,
             [text |-> "Invalid manifest. Skipping.", serverId |-> serverId])]
    ELSE [acc EXCEPT
             !.distributedTools = MapSet(@, toolManifest.id,
                                         DistributedManifest(serverId, toolManifest)),
             !.plugins = MapSet(@, toolManifest.id,
                                DistributedManifest(serverId, toolManifest)),
             !.logged = Append(@,
                 [text |-> "Registered distributed tool", serverId |-> serverId,
                  id |-> toolManifest.id])]

\* the body of the loop of registerDistributedTools for one descriptor; acc
\* holds the two tables and the lines logged so far
registerToolManifest(acc, serverId, toolManifest) ==
    IF toolManifest.name = Missing \/ toolManifest.id = Missing
    THEN [acc EXCEPT !.logged = Append(@,
             [text |-> "Invalid manifest. Skipping.", serverId |-> serverId])]
    ELSE IF toolManifest.id \in DOMAIN acc.plugins
    THEN [acc EXCEPT !.logged = Append(@,
             [text |-> "conflicts with existing tool. Skipping.", serverId |-> serverId,
              id |-> toolManifest.id])]
    ELSE [acc EXCEPT
             !.distributedTools = MapSet(@, toolManifest.id,
                                         DistributedManifest(serverId, toolManifest)),
             !.plugins = MapSet(@, toolManifest.id,
                                DistributedManifest(serverId, toolManifest)),
             !.logged = Append(@,
                 [text |-> "Registered distributed tool", serverId |-> serverId,
                  id |-> toolManifest.id])]

\* for (const toolManifest of tools) { ... }
RECURSIVE registerToolManifests(_, _, _)
registerToolManifests(acc, serverId, tools) ==
    IF tools = <<>> THEN acc
    ELSE registerToolManifests(registerToolManifest(acc, serverId, Head(tools)),
                               serverId, Tail(tools))

registerDistributedTools(serverId, tools) ==
    LET done == registerToolManifests(
                    [plugins |-> plugins, distributedTools |-> distributedTools,
                     logged |-> <<>>],
                    serverId, tools)
    IN  /\ plugins' = done.plugins
        /\ distributedTools' = done.distributedTools
        /\ individualPluginDescriptions' = rebuildVCPDescriptions(plugins')
        /\ runtimeLogged' = done.logged
        /\ runtimeEmitted' = <<>>
        /\ returned' = Returned("registerDistributedTools", NoValue)
        /\ UNCHANGED <<messagePreprocessors, preprocessorOrder, serviceModules,
                       staticPlaceholderValues>>

\* a call registerDistributedTools(serverId, tools) by the application
RegisterDistributedTools(serverId, tools) ==
    /\ registerDistributedTools(serverId, tools)
    /\ UNCHANGED <<channelVars, textVars, fetchVars, received, distributedExecutor>>

\* the plugins the loop of unregisterAllDistributedTools deletes
PluginsOfServer(serverId) == { id \in DOMAIN plugins : plugins[id].serverId = serverId }

unregisterAllDistributedTools(serverId) ==
    LET removed == PluginsOfServer(serverId)
    IN  /\ plugins' = MapDeleteAll(plugins, removed)
        /\ distributedTools' = MapDeleteAll(distributedTools, removed)
        /\ individualPluginDescriptions' =
               IF removed # {}
               THEN rebuildVCPDescriptions(plugins')
               ELSE individualPluginDescriptions
        /\ runtimeLogged' =
               IF removed # {}
               THEN <<[text |-> "Unregistered tools from server", serverId |-> serverId,
                       count |-> Cardinality(removed)]>>
               ELSE <<>>
        /\ runtimeEmitted' = <<>>
        /\ returned' = Returned("unregisterAllDistributedTools", NoValue)
        /\ UNCHANGED <<messagePreprocessors, preprocessorOrder, serviceModules,
                       staticPlaceholderValues>>

\* a call unregisterAllDistributedTools(serverId) by the application
UnregisterAllDistributedTools(serverId) ==
    /\ unregisterAllDistributedTools(serverId)
    /\ UNCHANGED <<channelVars, textVars, fetchVars, received, distributedExecutor>>

-----------------------------------------------------------------------------
(* The registry under every sequence of its four mutating methods *)

\* the manifests registered in these runs: every type, and for both ids a
\* direct and a distributed one
RegistryManifests ==
    { DirectManifest("A"), DirectManifest("B"),
      DistributedPluginManifest("A", FALSE), DistributedPluginManifest("A", TRUE),
      DistributedPluginManifest("B", TRUE),
      StaticManifest("A"), PreprocessorManifest("A", "append"),
      ServiceManifest("B"), InternalManifest("B") }
    \cup InvalidManifests

RegistryNext ==
    \/ \E manifest \in RegistryManifests : RegisterPlugin(manifest)
    \/ \E name \in PluginIds : UnloadPlugin(name)
    \/ \E serverId \in ServerIds, tools \in ToolBatches :
           RegisterDistributedTools(serverId, tools)
    \/ \E serverId \in ServerIds : UnregisterAllDistributedTools(serverId)

SpecRegistry == Init /\ [][RegistryNext]_vars

-----------------------------------------------------------------------------
(* Claims about the registry *)

\* the descriptors of a batch that registerDistributedTools is to register:
\* they have an id and a name, the id is not in the registry, and no earlier
\* descriptor of the batch took the id
Registrable(tools) ==
    { i \in DOMAIN tools :
        /\ tools[i].id # Missing /\ tools[i].name # Missing
        /\ tools[i].id \notin DOMAIN plugins
        /\ \A j \in 1 .. i - 1 :
              ~(tools[j].id = tools[i].id /\ tools[j].name # Missing) }

C14_DistributedDuplicateRefused ==
    [][\A manifest \in RegistryManifests \ InvalidManifests :
          (/\ returned'.op = "registerPlugin"
           /\ RegisterPlugin(manifest)
           /\ manifest.id \in DOMAIN plugins) =>
              IF manifest.type = "distributed"
              THEN /\ plugins' = plugins
                   /\ runtimeEmitted' = <<>>
              ELSE plugins'[manifest.id] = manifest]_vars

\* C15 (as claimed): registerDistributedTools registers a descriptor that has a
\* name and no id under its name, unless the name is taken as an id; a
\* descriptor without a name is skipped.
C15_NameFallsBackToId ==
    [][\A serverId \in ServerIds, tools \in ToolBatches :
          (/\ returned'.op = "registerDistributedTools"
           /\ RegisterDistributedTools(serverId, tools)) =>
              \A i \in DOMAIN tools :
                  /\ (/\ tools[i].id = Missing
                      /\ tools[i].name # Missing
                      /\ tools[i].name \notin DOMAIN plugins
                      /\ \A j \in 1 .. i - 1 : tools[j].id # tools[i].name) =>
                        /\ tools[i].name \in DOMAIN plugins'
                        /\ plugins'[tools[i].name].serverId = serverId
                        /\ plugins'[tools[i].name].type = "distributed"
                  /\ (tools[i].name = Missing /\ tools[i].id \notin DOMAIN plugins
                      /\ \A j \in DOMAIN tools : j # i => tools[j].id # tools[i].id) =>
                        tools[i].id \notin DOMAIN plugins']_vars

\* the plugins of the registry that have a command with a description
WithDescription ==
    { id \in DOMAIN plugins :
        /\ plugins[id].hasCommands
        /\ \E i \in DOMAIN plugins[id].commands :
              plugins[id].commands[i].description # Missing }

\* C16: in every state reached by registerPlugin, unloadPlugin,
\* registerDistributedTools and unregisterAllDistributedTools, the catalog has
\* the key VCP<id> exactly for the registered plugins that have a command with
\* a description, and the entry is one block per described command, in order,
\* with the name and the id of the stored manifest and the command's
\* description.
C16_CatalogFollowsRegistry ==
    /\ DOMAIN individualPluginDescriptions =
           { PlaceholderKey(id) : id \in WithDescription }
    /\ \A id \in WithDescription :
           LET entry == individualPluginDescriptions[PlaceholderKey(id)]
               described == SelectSeq(plugins[id].commands,
                                      LAMBDA cmd : cmd.description # Missing)
           IN  /\ plugins[id].id = id
               /\ Len(entry) = Len(described)
               /\ \A i \in DOMAIN entry :
                     /\ entry[i].name = plugins[id].name
                     /\ entry[i].id = id
                     /\ entry[i].command = described[i].command
                     /\ entry[i].description = described[i].description

\* C16 witness: a session's tool was dropped by unregisterAllDistributedTools
\* and its entry with it; what is left is a plugin with one described command
\* out of two, and its entry of one block
C16_Witness ==
    /\ returned.op = "unregisterAllDistributedTools"
    /\ Len(runtimeLogged) = 1 /\ runtimeLogged[1].count = 1
    /\ DOMAIN plugins = {"B"}
    /\ plugins["B"] = InternalManifest("B")
    /\ DOMAIN individualPluginDescriptions = {PlaceholderKey("B")}
    /\ Len(individualPluginDescriptions[PlaceholderKey("B")]) = 1

-----------------------------------------------------------------------------
(* executePlugin *)

\* setDistributedExecutor(executor)
SetDistributedExecutor ==
    /\ distributedExecutor' = TRUE
    /\ runtimeEmitted' = <<>>
    /\ runtimeLogged' = <<>>
    /\ returned' = Returned("setDistributedExecutor", NoValue)
    /\ UNCHANGED <<channelVars, textVars, fetchVars, received, registryVars>>

\* what the world outside the runtime does during one execution: the tool
\* answers ("ok": the executor resolves, the child exits with code 0, the
\* internal handler calls back with a result), it fails ("fails": the executor
\* rejects, the child exits with another code, the handler calls back with an
\* error), the child cannot be started ("spawnError"), nothing happens before
\* the timer fires ("timeout"), or the plugin's manifest file cannot be read
\* or has no entry point
Worlds == {"ok", "fails", "spawnError", "timeout", "unreadable", "noEntryPoint"}

\* how an execution path ends: with a result, or with the error it throws;
\* `events` and `logged` are what it emitted and logged on the way
Succeeds(result) ==
    [ok |-> TRUE, value |-> [result |-> result], events |-> <<>>, logged |-> <<>>]

Fails(error) ==
    [ok |-> FALSE, value |-> error, events |-> <<>>, logged |-> <<>>]

executeDistributedPlugin(plugin, name, world) ==
    IF ~distributedExecutor
    THEN Fails(VCPError("DISTRIBUTED_CONNECTION_ERROR", "Distributed executor not set",
                        [plugin |-> name]))
    ELSE IF world = "timeout"
    THEN [Fails(VCPError("TOOL_EXECUTION_FAILED", "Tool execution timeout",
                         [plugin |-> name]))
             EXCEPT !.logged = <<[text |-> "timed out", id |-> name]>>]
    ELSE IF world \in {"fails", "spawnError"}
    THEN Fails([name |-> "Error", message |-> "executor rejected"])
    ELSE Succeeds("remote result")

executeDirectPlugin(plugin, world) ==
    CASE world = "unreadable" ->
            Fails(VCPError("PLUGIN_LOAD_ERROR", "Failed to read manifest",
                           [plugin |-> plugin.id]))
      [] world = "noEntryPoint" ->
            Fails(VCPError("PLUGIN_LOAD_ERROR", "does not have a valid entryPoint",
                           [plugin |-> plugin.id]))
      [] world = "timeout" ->
            Fails(VCPError("TOOL_EXECUTION_FAILED", "execution timed out",
                           [plugin |-> plugin.id]))
      [] world = "fails" ->
            Fails(VCPError("TOOL_EXECUTION_FAILED", "execution failed with code",
                           [plugin |-> plugin.id]))
      [] world = "spawnError" ->
            Fails(VCPError("TOOL_EXECUTION_FAILED", "process error",
                           [plugin |-> plugin.id]))
      [] OTHER -> Succeeds("child output")

executeInternalPlugin(plugin, world) ==
    CASE plugin.id = "TVSList" -> Succeeds("TVS list")
      [] plugin.id = "AgentList" -> Succeeds("Agent list")
      [] OTHER ->
            LET asked == <<[event |-> "internal_plugin_execute", plugin |-> plugin.id]>>
            IN  IF world = "timeout"
                THEN [Fails(VCPError("TOOL_EXECUTION_FAILED", "handler timeout",
                                     [plugin |-> plugin.id]))
                         EXCEPT !.events = asked]
                ELSE IF world \in {"fails", "spawnError"}
                THEN [Fails([name |-> "Error", message |-> "handler error"])
                         EXCEPT !.events = asked]
                ELSE [Succeeds("handler result") EXCEPT !.events = asked]

\* the body of the try block of executePlugin up to the emit
RouteExecution(plugin, name, world) ==
    CASE plugin.type = "distributed" -> executeDistributedPlugin(plugin, name, world)
      [] plugin.type = "direct" -> executeDirectPlugin(plugin, world)
      [] plugin.type = "internal" -> executeInternalPlugin(plugin, world)
      [] OTHER ->
            Fails(VCPError("TOOL_EXECUTION_FAILED", "cannot be executed directly",
                           [plugin |-> name]))

executePlugin(name, world) ==
    IF name \notin DOMAIN plugins /\ name \notin DOMAIN distributedTools
    THEN /\ runtimeEmitted' = <<>>
         /\ runtimeLogged' = <<>>
         /\ returned' = Threw("executePlugin",
                VCPError("TOOL_NOT_FOUND", "not found", [name |-> name]))
    ELSE LET plugin == IF name \in DOMAIN plugins
                       THEN plugins[name] ELSE distributedTools[name]
             run == RouteExecution(plugin, name, world)
         IN  IF run.ok
             THEN /\ runtimeEmitted' =
                        Append(run.events,
                               [event |-> "plugin_executed", plugin |-> name,
                                result |-> run.value])
                  /\ runtimeLogged' = run.logged
                  /\ returned' = Returned("executePlugin", run.value)
             ELSE /\ runtimeEmitted' =
                        Append(run.events,
                               [event |-> "plugin_error", plugin |-> name,
                                error |-> run.value])
                  /\ runtimeLogged' =
                        Append(run.logged,
                               [text |-> "Plugin execution failed", id |-> name])
                  /\ returned' = Threw("executePlugin",
                         VCPError("TOOL_EXECUTION_FAILED", "Plugin execution failed",
                                  [error |-> run.value, plugin |-> name]))

\* a call executePlugin(name, args) by the application, in the world `world`
ExecutePlugin(name, world) ==
    /\ executePlugin(name, world)
    /\ UNCHANGED <<channelVars, textVars, fetchVars, received, registryVars, distributedExecutor>>

\* the manifests registered in the runs that execute plugins: the three
\* executable types and one that is not
ExecutableManifests ==
    { DirectManifest("A"), InternalManifest("A"), ServiceManifest("A"),
      DistributedPluginManifest("B", TRUE) }

ExecuteNext ==
    \/ \E manifest \in ExecutableManifests : RegisterPlugin(manifest)
    \/ \E name \in PluginIds : UnloadPlugin(name)
    \/ RegisterDistributedTools(1, <<ToolDescriptor("A", "A")>>)
    \/ SetDistributedExecutor
    \/ \E name \in PluginIds, world \in Worlds : ExecutePlugin(name, world)

SpecExecute == Init /\ [][ExecuteNext]_vars

-----------------------------------------------------------------------------
(* Claims about executePlugin *)

PluginEvents(events) ==
    { i \in DOMAIN events : events[i].event \in {"plugin_executed", "plugin_error"} }

\* C17 (as claimed): every executePlugin call emits exactly one of
\* plugin_executed and plugin_error: plugin_executed if it returns a result,
\* plugin_error if it fails, also when it fails because the id is unknown.
C17_ExactlyOneEvent ==
    [][\A name \in PluginIds, world \in Worlds :
          (returned'.op = "executePlugin" /\ ExecutePlugin(name, world)) =>
              /\ Cardinality(PluginEvents(runtimeEmitted')) = 1
              /\ \A i \in PluginEvents(runtimeEmitted') :
                    /\ runtimeEmitted'[i].plugin = name
                    /\ runtimeEmitted'[i].event =
                           IF returned'.status = "returned"
                           THEN "plugin_executed" ELSE "plugin_error"]_vars

\* the executions that end because a timer of the runtime fired: the race of
\* executeDistributedPlugin, the child's timer of executeDirectPlugin, the
\* handler timer of executeInternalPlugin
TimesOut(name, world) ==
    /\ world = "timeout"
    /\ \/ name \in DOMAIN plugins
       \/ name \in DOMAIN distributedTools
    /\ LET plugin == IF name \in DOMAIN plugins
                     THEN plugins[name] ELSE distributedTools[name]
       IN  \/ plugin.type = "distributed" /\ distributedExecutor
           \/ plugin.type = "direct"
           \/ plugin.type = "internal"

\* C19 (as claimed): an executePlugin call that times out rejects with a
\* VCPError of code TOOL_TIMEOUT, and no other failure has that code.
C19_TimeoutHasItsOwnCode ==
    [][\A name \in PluginIds, world \in Worlds :
          (returned'.op = "executePlugin" /\ ExecutePlugin(name, world)) =>
              /\ TimesOut(name, world) =>
                    /\ returned'.status = "threw"
                    /\ returned'.value.code = "TOOL_TIMEOUT"
              /\ (~TimesOut(name, world) /\ returned'.status = "threw") =>
                    returned'.value.code \in {"TOOL_EXECUTION_FAILED", "TOOL_NOT_FOUND"}]_vars

-----------------------------------------------------------------------------
(* processMessages *)

\* the message lists given to processMessages
MessageLists == { <<>>, <<"message">> }

\* one round of the loop of processMessages for the entry preprocessorId of
\* preprocessorOrder; acc holds processedMessages and the errors logged
applyPreprocessor(acc, table, preprocessorId) ==
    IF preprocessorId \notin DOMAIN table
    THEN acc
    ELSE LET processor == table[preprocessorId].processor
         IN  CASE processor = "append" ->
                     [acc EXCEPT !.messages = Append(@, table[preprocessorId].id)]
               [] processor = "throws" ->
                     [acc EXCEPT !.logged = Append(@,
                         [text |-> "Preprocessor failed", id |-> preprocessorId])]
               [] OTHER -> acc

\* for (const preprocessorId of this.preprocessorOrder) { ... }
RECURSIVE applyPreprocessors(_, _, _)
applyPreprocessors(acc, table, order) ==
    IF order = <<>> THEN acc
    ELSE applyPreprocessors(applyPreprocessor(acc, table, Head(order)),
                            table, Tail(order))

processMessages(messages) ==
    LET done == applyPreprocessors([messages |-> messages, logged |-> <<>>],
                                   messagePreprocessors, preprocessorOrder)
    IN  /\ returned' = Returned("processMessages", [list |-> done.messages])
        /\ runtimeLogged' = done.logged
        /\ runtimeEmitted' = <<>>

\* a call processMessages(messages) by the application
ProcessMessages(messages) ==
    /\ processMessages(messages)
    /\ UNCHANGED <<channelVars, textVars, fetchVars, received, registryVars, distributedExecutor>>

\* the manifests registered in the runs that process messages: preprocessors
\* with each kind of processor, and a plugin of another type
PipelineManifests ==
    { PreprocessorManifest(id, processor) : id \in PluginIds, processor \in Processors }
    \cup { DirectManifest("A") }

PipelineNext ==
    \/ \E manifest \in PipelineManifests : RegisterPlugin(manifest)
    \/ \E name \in PluginIds : UnloadPlugin(name)
    \/ \E messages \in MessageLists : ProcessMessages(messages)

SpecPipeline == Init /\ [][PipelineNext]_vars

-----------------------------------------------------------------------------
(* Claims about processMessages *)

\* seq without the repetitions of its elements
RECURSIVE WithoutRepetitions(_)
WithoutRepetitions(seq) ==
    IF seq = <<>> THEN <<>>
    ELSE LET front == WithoutRepetitions(SubSeq(seq, 1, Len(seq) - 1))
             last == seq[Len(seq)]
         IN  IF \E i \in DOMAIN front : front[i] = last
             THEN front ELSE Append(front, last)

\* the registered preprocessors, in the order in which they were registered:
\* the ids whose registry entry is a preprocessor, each once, in the order of
\* their first registration
RegisteredPreprocessors ==
    WithoutRepetitions(
        SelectSeq(preprocessorOrder,
                  LAMBDA id : id \in DOMAIN plugins /\ plugins[id].type = "preprocessor"))

\* C20 (as claimed): processMessages returns the list obtained by applying
\* the registered preprocessors one after the other in registration order,
\* each to the output of the one before; a preprocessor that throws leaves the
\* list as it received it, and the call returns a list all the same.
C20_PipelineInRegistrationOrder ==
    [][\A messages \in MessageLists :
          (returned'.op = "processMessages" /\ ProcessMessages(messages)) =>
              /\ returned'.status = "returned"
              /\ returned'.value.list =
                     applyPreprocessors([messages |-> messages, logged |-> <<>>],
                                        plugins, RegisteredPreprocessors).messages]_vars

-----------------------------------------------------------------------------
(* Part 3: the channel wired to the runtime as the communication guide     *)
(* documents it: the listener of tools_registered calls                    *)
(* registerDistributedTools(serverId, tools), the listener of              *)
(* tools_unregistered calls unregisterAllDistributedTools(serverId).       *)
(* EventEmitter.emit runs the listeners before it returns, so a listener   *)
(* runs inside the step of the handler that emits.                         *)

\* const toolNames = tools.map((t: any) => t.id || t.name);
RECURSIVE toolNames(_)
toolNames(tools) ==
    IF tools = <<>> THEN <<>>
    ELSE <<IF Head(tools).id # Missing THEN Head(tools).id ELSE Head(tools).name>>
         \o toolNames(Tail(tools))

\* TRUE iff the handler of this step emits the event
Emits(event) == \E i \in DOMAIN emitted' : emitted'[i].event = event

\* a register_tools frame with the descriptors tools arrives on ws; the event
\* hands the frame's descriptors to the listener
WiredRegisterTools(ws, tools) ==
    /\ readyState[ws] \in {"OPEN", "CLOSING"}
    /\ handleRegisterTools(ws, wsServerId[ws], toolNames(tools))
    /\ UNCHANGED <<readyState, wsServerId, pendingRequests, calls>>
    /\ IF Emits("tools_registered")
       THEN registerDistributedTools(wsServerId[ws], tools) /\ UNCHANGED distributedExecutor
       ELSE UNCHANGED runtimeVars

\* the tools property of the unregister_tools frames: lists of tool names
UnregisterLists == { <<"A">>, <<"A", "B">> }

handleUnregisterTools(ws, serverId, tools) ==
    IF serverId \notin DOMAIN distributedServers
    THEN /\ UNCHANGED distributedServers
         /\ emitted' = <<>>
    ELSE /\ distributedServers' =
                [distributedServers EXCEPT ![serverId].tools =
                    SelectSeq(@, LAMBDA t : \A i \in DOMAIN tools : tools[i] # t)]
         /\ emitted' = <<[event |-> "tools_unregistered", serverId |-> serverId,
                         tools |-> tools]>>

\* an unregister_tools frame naming tools arrives on ws
WiredUnregisterTools(ws, tools) ==
    /\ readyState[ws] \in {"OPEN", "CLOSING"}
    /\ handleUnregisterTools(ws, wsServerId[ws], tools)
    /\ outbox' = <<>>
    /\ warned' = <<>>
    /\ UNCHANGED <<readyState, wsServerId, pendingRequests, calls>>
    /\ IF Emits("tools_unregistered")
       THEN unregisterAllDistributedTools(wsServerId[ws]) /\ UNCHANGED distributedExecutor
       ELSE UNCHANGED runtimeVars

\* the socket's 'close' event with the listeners attached
WiredClose(ws) ==
    /\ HandleClose(ws)
    /\ IF Emits("tools_unregistered")
       THEN unregisterAllDistributedTools(wsServerId[ws]) /\ UNCHANGED distributedExecutor
       ELSE UNCHANGED runtimeVars

WiredNext ==
    \/ \E ws \in Sockets : HandleConnection(ws) /\ UNCHANGED <<runtimeVars, textVars, fetchVars, received>>
    \/ \E ws \in Sockets, tools \in ToolBatches :
           WiredRegisterTools(ws, tools) /\ UNCHANGED <<textVars, fetchVars, received>>
    \/ \E ws \in Sockets, tools \in UnregisterLists :
           WiredUnregisterTools(ws, tools) /\ UNCHANGED <<textVars, fetchVars, received>>
    \/ \E ws \in Sockets : WiredClose(ws) /\ UNCHANGED <<textVars, fetchVars, received>>

SpecWired == Init /\ [][WiredNext]_vars

-----------------------------------------------------------------------------
(* Claims about the wired system *)

\* C12 (as claimed): with the documented wiring, when the socket of a worker
\* session closes, no plugin stamped with the id of that session is left in
\* the registry, and none has an entry in the catalog, whatever register_tools
\* and unregister_tools frames the worker sent before.
C12_CloseRemovesSessionPlugins ==
    [][\A ws \in Sockets :
          (readyState'[ws] = "CLOSED" /\ WiredClose(ws)) =>
              \A id \in DOMAIN plugins :
                  plugins[id].serverId = wsServerId[ws] =>
                      /\ id \notin DOMAIN plugins'
                      /\ PlaceholderKey(id) \notin DOMAIN individualPluginDescriptions']_vars

-----------------------------------------------------------------------------
(* Part 4: texts.  A string is the sequence of its characters.             *)

\* [a-zA-Z0-9_] (\w)
WordChars ==
    { "a", "b", "c", "d", "e", "f", "g", "h", "i", "j", "k", "l", "m",
      "n", "o", "p", "q", "r", "s", "t", "u", "v", "w", "x", "y", "z",
      "A", "B", "C", "D", "E", "F", "G", "H", "I", "J", "K", "L", "M",
      "N", "O", "P", "Q", "R", "S", "T", "U", "V", "W", "X", "Y", "Z",
      "0", "1", "2", "3", "4", "5", "6", "7", "8", "9", "_" }

\* the class of placeholderPattern: [a-zA-Z0-9_:]
KeyChars == WordChars \cup { ":" }

\* the characters \s matches and trim() removes, as far as texts here use them
SpaceChars == { " ", "\n" }

\* the characters of seq
Range(seq) == { seq[i] : i \in DOMAIN seq }

\* content.indexOf(marker, from) for a non-empty marker, with positions counted
\* from 1; 0 stands for -1
IndexOf(content, marker, from) ==
    LET last == Len(content) - Len(marker) + 1
        At(i) == \A k \in 1 .. Len(marker) : content[i + k - 1] = marker[k]
    IN  IF \E i \in from .. last : At(i)
        THEN CHOOSE i \in from .. last : At(i) /\ \A j \in from .. (i - 1) : ~At(j)
        ELSE 0

\* the first position from i on whose character is not in class (Len + 1 if none)
RunEnd(content, i, class) ==
    CHOOSE j \in i .. (Len(content) + 1) :
        /\ \A k \in i .. (j - 1) : content[k] \in class
        /\ j <= Len(content) => content[j] \notin class

\* str.trim()
Trim(str) ==
    LET kept == { i \in DOMAIN str : str[i] \notin SpaceChars }
    IN  IF kept = {} THEN <<>>
        ELSE SubSeq(str, CHOOSE i \in kept : \A j \in kept : i <= j,
                         CHOOSE i \in kept : \A j \in kept : j <= i)

-----------------------------------------------------------------------------
(* VariableEngine.extractPlaceholders *)

\* {{KEY}}
Placeholder(key) == <<"{", "{">> \o key \o <<"}", "}">>

\* TRUE iff /\{\{([a-zA-Z0-9_:]+)\}\}/ matches content at position i
PlaceholderAt(content, i) ==
    /\ i + 4 <= Len(content)
    /\ content[i] = "{"
    /\ content[i + 1] = "{"
    /\ LET j == RunEnd(content, i + 2, KeyChars)
       IN  /\ j > i + 2
           /\ j + 1 <= Len(content)
           /\ content[j] = "}"
           /\ content[j + 1] = "}"

\* the match at position i: match[1] and match[0]
PlaceholderMatch(content, i) ==
    LET j == RunEnd(content, i + 2, KeyChars)
    IN  [key |-> SubSeq(content, i + 2, j - 1), full |-> SubSeq(content, i, j + 1)]

\* while ((match = regex.exec(content)) !== null): the matches, leftmost
\* first.  Two matches of the pattern never overlap (inside a match only its
\* first two characters are braces that open), so the searches that start
\* where the last match ended find the match at every position that has one
PlaceholderMatches(content) ==
    LET positions == SelectSeq([i \in 1 .. Len(content) |-> i],
                               LAMBDA i : PlaceholderAt(content, i))
    IN  [n \in DOMAIN positions |-> PlaceholderMatch(content, positions[n])]

\* placeholders.filter(...) with the Set seen: the first match of every key
extractPlaceholders(content) ==
    LET matches == PlaceholderMatches(content)
        tagged == [k \in DOMAIN matches |->
                      [match |-> matches[k],
                       seen |-> \E e \in 1 .. (k - 1) : matches[e].key = matches[k].key]]
        kept == SelectSeq(tagged, LAMBDA t : ~t.seen)
    IN  [n \in DOMAIN kept |-> kept[n].match]

-----------------------------------------------------------------------------
(* processedContent.replace(regex, value): regex is the escaped literal     *)
(* placeholder with the flag g, value is a replacement string               *)

\* the replacement string value as String.prototype.replace expands it for one
\* match: $$ is $, $& the match, $` the text before it, $' the text after it;
\* the regex has no group, so $1 and the like stay as they are
RECURSIVE Substitution(_, _, _, _)
Substitution(value, matched, before, after) ==
    IF "$" \notin Range(value) THEN value
    ELSE LET d == CHOOSE i \in DOMAIN value :
                      value[i] = "$" /\ \A j \in 1 .. (i - 1) : value[j] # "$"
             head == SubSeq(value, 1, d - 1)
             next == IF d < Len(value) THEN value[d + 1] ELSE ""
             rest == SubSeq(value, d + 2, Len(value))
         IN  CASE next = "$" -> head \o <<"$">> \o Substitution(rest, matched, before, after)
               [] next = "&" -> head \o matched \o Substitution(rest, matched, before, after)
               [] next = "`" -> head \o before \o Substitution(rest, matched, before, after)
               [] next = "'" -> head \o after \o Substitution(rest, matched, before, after)
               [] OTHER -> head \o <<"$">>
                           \o Substitution(SubSeq(value, d + 1, Len(value)),
                                           matched, before, after)

\* the text from position from on with every occurrence of placeholder replaced
RECURSIVE ReplaceFrom(_, _, _, _)
ReplaceFrom(content, placeholder, value, from) ==
    LET i == IndexOf(content, placeholder, from)
    IN  IF i = 0 THEN SubSeq(content, from, Len(content))
        ELSE SubSeq(content, from, i - 1)
             \o Substitution(value, placeholder,
                             SubSeq(content, 1, i - 1),
                             SubSeq(content, i + Len(placeholder), Len(content)))
             \o ReplaceFrom(content, placeholder, value, i + Len(placeholder))

ReplaceAll(content, placeholder, value) == ReplaceFrom(content, placeholder, value, 1)

\* for (const [placeholder, value] of replacements): replacements is the Map
\* as the sequence of its entries
RECURSIVE applyReplacements(_, _)
applyReplacements(content, replacements) ==
    IF replacements = <<>> THEN content
    ELSE applyReplacements(
             ReplaceAll(content, Head(replacements).placeholder, Head(replacements).value),
             Tail(replacements))

-----------------------------------------------------------------------------
(* Providers *)

\* private static readonly MAX_PLACEHOLDERS = 100
MAX_PLACEHOLDERS == 100

\* the longest chain of keys the chain provider serves
ChainLength == 10

\* the largest maxRecursionDepth set by updateOptions besides the default
MaxSmallDepth == 2

HexDigits == <<"0", "1", "2", "3", "4", "5", "6", "7", "8", "9",
               "A", "B", "C", "D", "E", "F">>

\* the i-th of the keys of a text with many placeholders: two hex digits
WideKey(i) == <<HexDigits[(i \div 16) + 1], HexDigits[(i % 16) + 1]>>

\* a text of n placeholders with n different keys: {{01}}{{02}}...
Wide(n) ==
    [p \in 1 .. (6 * n) |->
        LET i == ((p - 1) \div 6) + 1
            o == (p - 1) % 6
        IN  CASE o < 2 -> "{"
              [] o = 2 -> WideKey(i)[1]
              [] o = 3 -> WideKey(i)[2]
              [] OTHER -> "}"]

\* the i-th key of the chain: a, aa, aaa, ...
ChainKey(i) == [k \in 1 .. i |-> "a"]

\* what provider.resolve(key, context) does
ResolvesTo(text) == [kind |-> "value", text |-> text]
ResolvesToNull == [kind |-> "null"]
ResolveThrows == [kind |-> "throws"]

\* the providers registered in these runs, by what their resolve does:
\*   chain:  ChainKey(i) -> {{ChainKey(i+1)}} for i <= ChainLength, the last
\*           key of the chain -> end
\*   cycle:  A -> {{B}}, B -> {{A}}, C -> x{{C}}
\*   static: A -> va, D -> one, M -> $&
\*   other:  D -> two, E -> {{D}}!
\*   wide:   W -> a text of MAX_PLACEHOLDERS + 1 placeholders,
\*           V -> a text of MAX_PLACEHOLDERS placeholders
\*   throws: resolve throws for every key
\* every provider returns null for the keys not listed
ProviderKinds == { "chain", "cycle", "static", "other", "wide", "throws" }

resolve(provider, key) ==
    CASE provider.kind = "chain" ->
             IF key # <<>> /\ Range(key) = {"a"} /\ Len(key) <= ChainLength + 1
             THEN IF Len(key) <= ChainLength
                  THEN ResolvesTo(Placeholder(ChainKey(Len(key) + 1)))
                  ELSE ResolvesTo(<<"e", "n", "d">>)
             ELSE ResolvesToNull
      [] provider.kind = "cycle" ->
             CASE key = <<"A">> -> ResolvesTo(Placeholder(<<"B">>))
               [] key = <<"B">> -> ResolvesTo(Placeholder(<<"A">>))
               [] key = <<"C">> -> ResolvesTo(<<"x">> \o Placeholder(<<"C">>))
               [] OTHER -> ResolvesToNull
      [] provider.kind = "static" ->
             CASE key = <<"A">> -> ResolvesTo(<<"v", "a">>)
               [] key = <<"D">> -> ResolvesTo(<<"o", "n", "e">>)
               [] key = <<"M">> -> ResolvesTo(<<"$", "&">>)
               [] OTHER -> ResolvesToNull
      [] provider.kind = "other" ->
             CASE key = <<"D">> -> ResolvesTo(<<"t", "w", "o">>)
               [] key = <<"E">> -> ResolvesTo(Placeholder(<<"D">>) \o <<"!">>)
               [] OTHER -> ResolvesToNull
      [] provider.kind = "wide" ->
             CASE key = <<"W">> -> ResolvesTo(Wide(MAX_PLACEHOLDERS + 1))
               [] key = <<"V">> -> ResolvesTo(Wide(MAX_PLACEHOLDERS))
               [] OTHER -> ResolvesToNull
      [] OTHER -> ResolveThrows

\* the names under which providers are registered
ProviderNames == { "P", "Q" }

\* the providers given to registerProvider
Providers(kinds) == [name : ProviderNames, kind : kinds]

\* the second argument the API reference gives registerProvider ("higher
\* number = higher priority, default: 0")
DefaultPriority == 0
Priorities == { DefaultPriority, 100 }

-----------------------------------------------------------------------------
(* VariableEngine.resolveRecursive *)

\* let resolved: string | null
Null == [isNull |-> TRUE]
NonNull(text) == [isNull |-> FALSE, text |-> text]

NoError == [name |-> "none"]

\* new CircularDependencyError(`Circular variable reference detected for '${key}'`,
\*                             { stack, key })
CircularDependencyError(key, stack) ==
    [name |-> "CircularDependencyError", code |-> "CIRCULAR_DEPENDENCY",
     message |-> "Circular variable reference detected",
     details |-> [stack |-> stack, key |-> key]]

\* processingStack.add(key), processingStack.delete(key): a Set in insertion order
StackAdd(stack, key) == IF key \in Range(stack) THEN stack ELSE Append(stack, key)
StackDelete(stack, key) == SelectSeq(stack, LAMBDA k : k # key)

\* the catch of the provider loop without its rethrow
IsRethrown_Never(error) == FALSE

\* if (error instanceof CircularDependencyError) throw error
IsRethrown(error) == error.name = "CircularDependencyError"

\* how a call of resolveRecursive, or a part of it, ends: it returns text or
\* throws error, with processingStack and the logger's lines as it leaves them
Completes(text, stack, logged) ==
    [threw |-> FALSE, text |-> text, error |-> NoError, stack |-> stack, logged |-> logged]
Throws(error, stack, logged) ==
    [threw |-> TRUE, text |-> <<>>, error |-> error, stack |-> stack, logged |-> logged]

RECURSIVE resolveRecursive(_, _, _, _)
RECURSIVE tryProviders(_, _, _, _, _, _)
RECURSIVE collectReplacements(_, _, _, _, _)
RECURSIVE collectReplacement(_, _, _)

\* for (const provider of this.providers.values()) { try ... catch ... } for
\* one key, from the p-th provider on; resolved is the variable of that name
tryProviders(key, p, resolvedSoFar, stack, logged, depth) ==
    IF p > Len(providers)
    THEN [threw |-> FALSE, resolved |-> resolvedSoFar, error |-> NoError,
          stack |-> stack, logged |-> logged]
    ELSE LET outcome == resolve(providers[p], key)
             line(error) == [text |-> "Error resolving variable", key |-> key,
                             provider |-> providers[p].name, error |-> error]
         IN  CASE outcome.kind = "throws" ->
                      tryProviders(key, p + 1, resolvedSoFar, stack,
                                   Append(logged, line("Error")), depth)
               [] outcome.kind = "null" ->
                      tryProviders(key, p + 1, Null, stack, logged, depth)
               [] OTHER ->
                      LET inner == resolveRecursive(outcome.text, StackAdd(stack, key),
                                                    logged, depth + 1)
                      IN  IF ~inner.threw
                          THEN [threw |-> FALSE, resolved |-> NonNull(inner.text),
                                error |-> NoError,
                                stack |-> StackDelete(inner.stack, key),
                                logged |-> inner.logged]
                          ELSE IF IsRethrown(inner.error)
                          THEN [threw |-> TRUE, resolved |-> NonNull(outcome.text),
                                error |-> inner.error, stack |-> inner.stack,
                                logged |-> Append(inner.logged, line(inner.error.code))]
                          ELSE tryProviders(key, p + 1, NonNull(outcome.text), inner.stack,
                                            Append(inner.logged, line(inner.error.code)),
                                            depth)

\* a round that sets a replacement also when no provider had a value: the
\* placeholder is replaced by the empty text
collectReplacement_BlanksUnresolved(placeholder, collected, depth) ==
    LET tried == tryProviders(placeholder.key, 1, Null, collected.stack,
                              collected.logged, depth)
    IN  [threw |-> tried.threw,
         replacements |->
             Append(collected.replacements,
                    [placeholder |-> placeholder.full,
                     value |-> IF tried.resolved.isNull THEN <<>>
                               ELSE tried.resolved.text]),
         error |-> tried.error,
         stack |-> tried.stack,
         logged |-> tried.logged]

\* one round of the loop over the placeholders; collected holds the Map
\* replacements, processingStack and the logger's lines so far
collectReplacement(placeholder, collected, depth) ==
    LET key == placeholder.key
    IN  IF options.detectCircular /\ key \in Range(collected.stack)
        THEN [collected EXCEPT
                 !.threw = TRUE,
                 !.error = CircularDependencyError(key, collected.stack),
                 !.logged = Append(@, [text |-> "Circular dependency detected",
                                       key |-> key])]
        ELSE LET tried == tryProviders(key, 1, Null, collected.stack,
                                       collected.logged, depth)
             IN  [threw |-> tried.threw,
                  replacements |->
                      IF tried.threw \/ tried.resolved.isNull
                      THEN collected.replacements
                      ELSE Append(collected.replacements,
                                  [placeholder |-> placeholder.full,
                                   value |-> tried.resolved.text]),
                  error |-> tried.error,
                  stack |-> tried.stack,
                  logged |-> tried.logged]

\* for (const placeholder of placeholders) { ... } over placeholders[lo .. hi],
\* in order (the first half, then the second); a throw ends the loop
collectReplacements(placeholders, lo, hi, collected, depth) ==
    IF collected.threw \/ lo > hi THEN collected
    ELSE IF lo = hi THEN collectReplacement(placeholders[lo], collected, depth)
    ELSE LET mid == (lo + hi) \div 2
         IN  collectReplacements(placeholders, mid + 1, hi,
                 collectReplacements(placeholders, lo, mid, collected, depth), depth)

resolveRecursive(content, stack, logged, depth) ==
    IF depth >= options.maxRecursionDepth
    THEN Throws(VCPError("MAX_RECURSION_DEPTH", "Maximum recursion depth exceeded",
                         [depth |-> depth]),
                stack, Append(logged, [text |-> "Max recursion depth reached"]))
    ELSE LET placeholders == extractPlaceholders(content)
         IN  IF Len(placeholders) > MAX_PLACEHOLDERS
             THEN Throws(VCPError("VARIABLE_RESOLVE_ERROR", "Too many placeholders",
                                  [count |-> Len(placeholders)]),
                         stack, Append(logged, [text |-> "Too many placeholders"]))
             ELSE LET collected == collectReplacements(
                                       placeholders, 1, Len(placeholders),
                                       [threw |-> FALSE, replacements |-> <<>>,
                                        error |-> NoError, stack |-> stack,
                                        logged |-> logged],
                                       depth)
                  IN  IF collected.threw
                      THEN Throws(collected.error, collected.stack, collected.logged)
                      ELSE Completes(applyReplacements(content, collected.replacements),
                                     collected.stack, collected.logged)

-----------------------------------------------------------------------------
(* VariableEngine.resolveSingle and resolveAll *)

\* the provider loop of resolveSingle for one key, from the p-th provider on
RECURSIVE trySingle(_, _, _, _)
trySingle(key, p, resolvedSoFar, logged) ==
    IF p > Len(providers)
    THEN [resolved |-> resolvedSoFar, logged |-> logged]
    ELSE LET outcome == resolve(providers[p], key)
         IN  CASE outcome.kind = "throws" ->
                      trySingle(key, p + 1, resolvedSoFar,
                                Append(logged, [text |-> "Error resolving variable",
                                                key |-> key,
                                                provider |-> providers[p].name,
                                                error |-> "Error"]))
               [] outcome.kind = "null" -> trySingle(key, p + 1, Null, logged)
               [] OTHER -> [resolved |-> NonNull(outcome.text), logged |-> logged]

\* seqs[lo] \o ... \o seqs[hi]
RECURSIVE Concat(_, _, _)
Concat(seqs, lo, hi) ==
    IF lo > hi THEN <<>>
    ELSE IF lo = hi THEN seqs[lo]
    ELSE Concat(seqs, lo, (lo + hi) \div 2) \o Concat(seqs, ((lo + hi) \div 2) + 1, hi)

\* for (const placeholder of placeholders) { ... } of resolveSingle: no round
\* depends on the one before, the replacements and the logger's lines are
\* those of the rounds in order
resolveSingle(content) ==
    LET placeholders == extractPlaceholders(content)
        tried == [n \in DOMAIN placeholders |->
                     trySingle(placeholders[n].key, 1, Null, <<>>)]
        found == SelectSeq([n \in DOMAIN placeholders |-> n],
                           LAMBDA n : ~tried[n].resolved.isNull)
        replacements == [r \in DOMAIN found |->
                            [placeholder |-> placeholders[found[r]].full,
                             value |-> tried[found[r]].resolved.text]]
        logged == Concat([n \in DOMAIN placeholders |-> tried[n].logged],
                         1, Len(placeholders))
    IN  Completes(applyReplacements(content, replacements), <<>>, logged)

\* how the last call resolveAll(content) ended
Resolved(content, end) ==
    [op |-> "resolveAll", content |-> content,
     status |-> IF end.threw THEN "threw" ELSE "returned",
     text |-> end.text, error |-> end.error, logged |-> end.logged]

resolveAll(content) ==
    IF content = <<>>
    THEN Completes(<<>>, <<>>, <<>>)
    ELSE IF options.enableRecursion
         THEN resolveRecursive(content, <<>>, <<>>, 0)
         ELSE resolveSingle(content)

\* a call resolveAll(content) by the application
ResolveAll(content) ==
    /\ resolved' = Resolved(content, resolveAll(content))
    /\ UNCHANGED <<channelVars, runtimeVars, fetchVars, received, providers, options, parsed>>

-----------------------------------------------------------------------------
(* registerProvider, removeProvider, updateOptions *)

\* the position of the provider called name in the Map, 0 if there is none
ProviderIndex(name) ==
    IF \E i \in DOMAIN providers : providers[i].name = name
    THEN CHOOSE i \in DOMAIN providers : providers[i].name = name
    ELSE 0

\* this.providers.set(provider.name, provider): a new name goes to the end, a
\* known name keeps its place.  The engine takes one argument; the entry's
\* field priority only records the second argument of the call
registerProvider(provider, priority) ==
    LET entry == [name |-> provider.name, kind |-> provider.kind, priority |-> priority]
        i == ProviderIndex(provider.name)
    IN  IF i = 0 THEN Append(providers, entry) ELSE [providers EXCEPT ![i] = entry]

RegisterProvider(provider, priority) ==
    /\ providers' = registerProvider(provider, priority)
    /\ resolved' = NoCall
    /\ UNCHANGED <<channelVars, runtimeVars, fetchVars, received, options, parsed>>

\* this.providers.delete(providerName)
removeProvider(providerName) == SelectSeq(providers, LAMBDA e : e.name # providerName)

RemoveProvider(providerName) ==
    /\ providers' = removeProvider(providerName)
    /\ resolved' = NoCall
    /\ UNCHANGED <<channelVars, runtimeVars, fetchVars, received, options, parsed>>

\* the values of maxRecursionDepth set in these runs
Depths == (1 .. MaxSmallDepth) \cup { DEFAULT_OPTIONS.maxRecursionDepth }

\* this.options = { ...this.options, ...options }, for the partial options
\* that set one field
OptionUpdates ==
    [field : {"maxRecursionDepth"}, value : Depths]
    \cup [field : {"detectCircular", "enableRecursion"}, value : BOOLEAN]

updateOptions(update) ==
    CASE update.field = "maxRecursionDepth" ->
             [options EXCEPT !.maxRecursionDepth = update.value]
      [] update.field = "detectCircular" ->
             [options EXCEPT !.detectCircular = update.value]
      [] OTHER -> [options EXCEPT !.enableRecursion = update.value]

UpdateOptions(update) ==
    /\ options' = updateOptions(update)
    /\ resolved' = NoCall
    /\ UNCHANGED <<channelVars, runtimeVars, fetchVars, received, providers, parsed>>

-----------------------------------------------------------------------------
(* The engine under every sequence of its methods *)

\* the lengths N of the chains resolved: the values of maxRecursionDepth and
\* the lengths just below them
ChainLengths ==
    { n \in 0 .. ChainLength : n \in Depths \/ n + 1 \in Depths }

\* the texts given to resolveAll: the empty text, texts without placeholder,
\* the chains {{A1}} of these lengths, the keys of the other providers, a key
\* no provider serves, texts of several placeholders
Contents ==
    { <<>>, <<"h", "i">>, <<"{", "{", "}", "}", " ", "{", "D", "}">> }
    \cup { Placeholder(ChainKey(ChainLength + 1 - n)) : n \in ChainLengths }
    \cup { Placeholder(<<k>>) : k \in {"A", "C", "D", "E", "M", "U"} }
    \cup { <<"s", " ">> \o Placeholder(<<"A">>) \o <<" ">> \o Placeholder(<<"U">>)
               \o Placeholder(<<"D">>) \o Placeholder(<<"U">>) }
    \cup { Placeholder(<<"E">>) \o Placeholder(<<"D">>) }

EngineNext ==
    \/ \E provider \in Providers(ProviderKinds \ {"wide"}) :
           RegisterProvider(provider, DefaultPriority)
    \/ \E name \in ProviderNames : RemoveProvider(name)
    \/ \E update \in OptionUpdates : UpdateOptions(update)
    \/ \E content \in Contents : ResolveAll(content)

SpecEngine == Init /\ [][EngineNext]_vars

\* the engine with providers whose values have many placeholders, and texts
\* at and over the fan-out cap
WideContents ==
    { Placeholder(<<"W">>), Placeholder(<<"V">>), Placeholder(<<"D">>),
      Wide(MAX_PLACEHOLDERS), Wide(MAX_PLACEHOLDERS + 1) }

FanOutNext ==
    \/ \E provider \in Providers({"wide", "static", "throws"}) :
           RegisterProvider(provider, DefaultPriority)
    \/ \E name \in ProviderNames : RemoveProvider(name)
    \/ \E update \in OptionUpdates : UpdateOptions(update)
    \/ \E content \in WideContents : ResolveAll(content)

SpecFanOut == Init /\ [][FanOutNext]_vars

\* the engine with providers registered with the priorities of the API reference
PriorityNext ==
    \/ \E provider \in Providers({"static", "other"}), priority \in Priorities :
           RegisterProvider(provider, priority)
    \/ \E name \in ProviderNames : RemoveProvider(name)
    \/ \E content \in { Placeholder(<<"D">>), Placeholder(<<"E">>),
                          Placeholder(<<"A">>) } : ResolveAll(content)

SpecPriority == Init /\ [][PriorityNext]_vars

-----------------------------------------------------------------------------
(* Claims about the template engine *)

\* the providers that return a value for key (they neither return null nor throw)
Serving(key) == { p \in DOMAIN providers : resolve(providers[p], key).kind = "value" }

\* the earliest registered of them
FirstServing(key) == CHOOSE p \in Serving(key) : \A q \in Serving(key) : p <= q

\* the engine's check `processingStack.has(key)` found key in the last call
DetectedCircular(key) ==
    \E i \in DOMAIN resolved.logged :
        /\ resolved.logged[i].text = "Circular dependency detected"
        /\ resolved.logged[i].key = key

\* the last call failed with CIRCULAR_DEPENDENCY naming key, returning no text
FailedCircular(key) ==
    /\ resolved.status = "threw"
    /\ resolved.error.code = "CIRCULAR_DEPENDENCY"
    /\ resolved.error.details.key = key
    /\ resolved.text = <<>>

\* C21: with cycle detection on, a call of resolveAll in which a key is reached
\* again while it is on the resolution stack fails with CIRCULAR_DEPENDENCY
\* naming that key, whatever the nesting level of the detection and whatever
\* providers were tried on the way, and returns no text.  In particular
\* resolving {{A}} with A -> {{B}}, B -> {{A}} fails naming A, and resolving
\* {{C}} with C -> x{{C}} fails naming C.
C21_CycleFailsTheCall ==
    (resolved.op = "resolveAll" /\ options.enableRecursion /\ options.detectCircular) =>
        /\ \A key \in { <<"A">>, <<"B">>, <<"C">> } :
               DetectedCircular(key) => FailedCircular(key)
        /\ ( /\ resolved.content = Placeholder(<<"A">>)
             /\ options.maxRecursionDepth > 2
             /\ Serving(<<"A">>) # {}
             /\ providers[FirstServing(<<"A">>)].kind = "cycle" ) =>
               FailedCircular(<<"A">>)
        /\ ( /\ resolved.content = Placeholder(<<"C">>)
             /\ options.maxRecursionDepth > 1
             /\ Serving(<<"C">>) # {} ) =>
               FailedCircular(<<"C">>)

\* C21 witness: the cycle A -> {{B}} -> {{A}} was found two levels down, behind
\* a provider that throws, in a text with other placeholders, and the call failed
C21_Witness ==
    /\ resolved.op = "resolveAll"
    /\ Len(resolved.content) > 5
    /\ Len(providers) = 2
    /\ providers[1].kind = "throws"
    /\ providers[2].kind = "cycle"
    /\ DetectedCircular(<<"A">>)
    /\ FailedCircular(<<"A">>)

\* the chain {{A1}} of length n is resolved by the chain provider
ResolvedChain(n) ==
    /\ resolved.op = "resolveAll"
    /\ options.enableRecursion
    /\ resolved.content = Placeholder(ChainKey(ChainLength + 1 - n))
    /\ \E p \in DOMAIN providers : providers[p].kind = "chain"

\* C22 (as claimed): for the chain A1 -> {{A2}} -> ... -> A(N+1) -> end,
\* resolveAll({{A1}}) returns end when N is below maxRecursionDepth and fails
\* with MAX_RECURSION_DEPTH when N equals maxRecursionDepth.
C22_DepthCap ==
    \A n \in ChainLengths :
        ResolvedChain(n) =>
            /\ n < options.maxRecursionDepth =>
                   resolved.status = "returned" /\ resolved.text = <<"e", "n", "d">>
            /\ n = options.maxRecursionDepth =>
                   /\ resolved.status = "threw"
                   /\ resolved.error.code = "MAX_RECURSION_DEPTH"

\* C23 (as claimed): resolveAll fails when the input, or a value a provider
\* returns for a key of it, has more than MAX_PLACEHOLDERS different
\* placeholders, and does not fail for that reason with MAX_PLACEHOLDERS.
C23_FanOutCap ==
    (resolved.op = "resolveAll" /\ options.enableRecursion
        /\ options.maxRecursionDepth > 1) =>
        /\ resolved.content = Wide(MAX_PLACEHOLDERS + 1) => resolved.status = "threw"
        /\ ( /\ resolved.content = Placeholder(<<"W">>)
             /\ \E p \in DOMAIN providers : providers[p].kind = "wide" ) =>
               resolved.status = "threw"
        /\ resolved.content \in { Wide(MAX_PLACEHOLDERS), Placeholder(<<"V">>) } =>
               resolved.status = "returned"

\* C24 (as claimed): the value substituted for a key is that of the earliest
\* registered provider that returns a non-null value for it without throwing;
\* here for the key D, whose values (one, two) hold no placeholder.
C24_FirstProviderWins ==
    ( /\ resolved.op = "resolveAll"
      /\ resolved.content = Placeholder(<<"D">>)
      /\ Serving(<<"D">>) # {} ) =>
        /\ resolved.status = "returned"
        /\ resolved.text = resolve(providers[FirstServing(<<"D">>)], <<"D">>).text

\* the number of places of text at which sub occurs
Occurrences(text, sub) ==
    Cardinality({ i \in 1 .. (Len(text) - Len(sub) + 1) :
                    SubSeq(text, i, i + Len(sub) - 1) = sub })

C26_HigherPriorityFirst ==
    ( /\ resolved.op = "resolveAll"
      /\ resolved.content = Placeholder(<<"D">>)
      /\ Serving(<<"D">>) # {} ) =>
        \A p \in Serving(<<"D">>) :
            (\A q \in Serving(<<"D">>) \ {p} : providers[q].priority < providers[p].priority)
                => resolved.text = resolve(providers[p], <<"D">>).text

-----------------------------------------------------------------------------
(* VCPProtocolParser: the default configuration and the texts it reads *)

\* the characters of the default parameter markers, U+300C, U+59CB, U+300D and
\* U+672B, one UTF-16 unit each, written by their code points
LeftCorner == "u300C"
RightCorner == "u300D"

\* DEFAULT_CONFIG
DEFAULT_CONFIG ==
    [toolRequestStartMarker |->
         <<"<", "<", "<", "[", "T", "O", "O", "L", "_",
           "R", "E", "Q", "U", "E", "S", "T", "]", ">", ">", ">">>,
     toolRequestEndMarker |->
         <<"<", "<", "<", "[", "E", "N", "D", "_", "T", "O", "O", "L", "_",
           "R", "E", "Q", "U", "E", "S", "T", "]", ">", ">", ">">>,
     paramStartMarker |-> <<LeftCorner, "u59CB", RightCorner>>,
     paramEndMarker |-> <<LeftCorner, "u672B", RightCorner>>,
     debug |-> FALSE]

\* this.config of new VCPProtocolParser()
config == DEFAULT_CONFIG

\* the names of the two reserved fields, and the key of the accessor every
\* object literal inherits from Object.prototype
ToolNameKey == <<"t", "o", "o", "l", "_", "n", "a", "m", "e">>
ArcheryKey == <<"a", "r", "c", "h", "e", "r", "y">>
ProtoKey == <<"_", "_", "p", "r", "o", "t", "o", "_", "_">>

-----------------------------------------------------------------------------
(* VCPProtocolParser.parseRequestBlock *)

\* one match of paramRegex,
\*   /([\w_]+)\s*:\s*<paramStartMarker>([\s\S]*?)<paramEndMarker>\s*(?:,)?/,
\* beginning at position i of blockContent. [\w_]+ and both \s* are followed by
\* a character outside their class, so each takes its whole run; the lazy
\* group ends at the first paramEndMarker; the trailing \s* and the comma are
\* taken when present.
ParamMatchAt(blockContent, i) ==
    LET keyEnd == RunEnd(blockContent, i, WordChars)
        colon == RunEnd(blockContent, keyEnd, SpaceChars)
        open == RunEnd(blockContent, colon + 1, SpaceChars)
        openLen == Len(config.paramStartMarker)
        valueStart == open + openLen
        close == IndexOf(blockContent, config.paramEndMarker, valueStart)
        spaceEnd == RunEnd(blockContent, close + Len(config.paramEndMarker), SpaceChars)
        found ==
            /\ keyEnd > i
            /\ colon <= Len(blockContent)
            /\ blockContent[colon] = ":"
            /\ open + openLen - 1 <= Len(blockContent)
            /\ SubSeq(blockContent, open, open + openLen - 1) = config.paramStartMarker
            /\ close # 0
    IN  IF ~found THEN [found |-> FALSE]
        ELSE [found |-> TRUE,
              key |-> SubSeq(blockContent, i, keyEnd - 1),
              captured |-> SubSeq(blockContent, valueStart, close - 1),
              lastIndex |-> IF spaceEnd <= Len(blockContent) /\ blockContent[spaceEnd] = ","
                            THEN spaceEnd + 1 ELSE spaceEnd]

\* paramRegex.exec(blockContent) with lastIndex at from: the leftmost match
ParamExec(blockContent, from) ==
    LET starts == { i \in from .. Len(blockContent) : ParamMatchAt(blockContent, i).found }
    IN  IF starts = {} THEN [found |-> FALSE]
        ELSE ParamMatchAt(blockContent, CHOOSE i \in starts : \A j \in starts : i <= j)

\* parsedArgs[key] = value on the object literal {}: the key __proto__ reaches
\* the setter inherited from Object.prototype, which ignores a string, so no
\* own property is made; every other key becomes or replaces an own property
SetArg(parsedArgs, key, value) ==
    IF key = ProtoKey THEN parsedArgs
    ELSE [k \in (DOMAIN parsedArgs) \cup {key} |->
             IF k = key THEN value ELSE parsedArgs[k]]

\* the variables of parseRequestBlock before its loop
NoFields == [parsedArgs |-> <<>>, toolName |-> Null, isArchery |-> FALSE]

\* the body of while ((match = paramRegex.exec(blockContent)) !== null)
readField(fields, match) ==
    LET key == match.key
        value == Trim(match.captured)
    IN  IF key = ToolNameKey THEN [fields EXCEPT !.toolName = NonNull(value)]
        ELSE IF key = ArcheryKey
        THEN [fields EXCEPT !.isArchery =
                 value \in { <<"t", "r", "u", "e">>,
                             <<"n", "o", "_", "r", "e", "p", "l", "y">> }]
        ELSE [fields EXCEPT !.parsedArgs = SetArg(fields.parsedArgs, key, value)]

RECURSIVE readFields(_, _, _)

\* the loop from lastIndex = from on
readFields(blockContent, from, fields) ==
    LET match == ParamExec(blockContent, from)
    IN  IF ~match.found THEN fields
        ELSE readFields(blockContent, match.lastIndex, readField(fields, match))

\* if (!toolName): toolName is null or the empty string
IsFalsy_OnlyNull(toolName) == toolName.isNull

IsFalsy(toolName) == toolName.isNull \/ toolName.text = <<>>

\* parseRequestBlock(blockContent): the request, or null
parseRequestBlock(blockContent) ==
    LET fields == readFields(blockContent, 1, NoFields)
    IN  IF IsFalsy(fields.toolName) THEN Null
        ELSE [isNull |-> FALSE,
              name |-> fields.toolName.text,
              args |-> fields.parsedArgs,
              archery |-> fields.isArchery,
              rawText |-> blockContent]
-----------------------------------------------------------------------------
(* VCPProtocolParser.parseToolRequests *)

\* Positions in a text are counted from 1: searchOffset, startIndex and
\* endIndex here are one more than the variables of that name in the code.

\* searchOffset after an opening marker that no closing marker follows
skipPastStart_StaysAtStart(startIndex) == startIndex

skipPastStart(startIndex) == startIndex + Len(config.toolRequestStartMarker)

\* the number of times the test of the while loop is allowed to run: the
\* offset is at most content.length + 1 and, growing each round, is tested no
\* more often than this
Rounds(content) == Len(content) + 2

RECURSIVE scanFrom(_, _, _, _, _)

\* the while loop from searchOffset on, with the requests pushed so far and
\* the offsets the loop test has seen. The loop reads nothing but content and
\* searchOffset, so a round that leaves searchOffset where it was is repeated
\* for ever; returned is FALSE then, and when the loop is still running after
\* Rounds(content) tests.
scanFrom(content, searchOffset, toolRequests, offsets, rounds) ==
    LET tested == Append(offsets, searchOffset)
        startMarker == config.toolRequestStartMarker
        endMarker == config.toolRequestEndMarker
        startIndex == IndexOf(content, startMarker, searchOffset)
        endIndex == IndexOf(content, endMarker, startIndex + Len(startMarker))
        requestBlockContent ==
            Trim(SubSeq(content, startIndex + Len(startMarker), endIndex - 1))
        toolRequest == parseRequestBlock(requestBlockContent)
        pushed == IF endIndex = 0 \/ toolRequest.isNull THEN toolRequests
                  ELSE Append(toolRequests, toolRequest)
        nextOffset == IF endIndex = 0 THEN skipPastStart(startIndex)
                      ELSE endIndex + Len(endMarker)
    IN  IF rounds = 0
        THEN [returned |-> FALSE, toolRequests |-> toolRequests, offsets |-> offsets]
        ELSE IF searchOffset > Len(content) \/ startIndex = 0
        THEN [returned |-> TRUE, toolRequests |-> toolRequests, offsets |-> tested]
        ELSE IF nextOffset = searchOffset
        THEN [returned |-> FALSE, toolRequests |-> pushed,
              offsets |-> Append(tested, nextOffset)]
        ELSE scanFrom(content, nextOffset, pushed, tested, rounds - 1)

\* parseToolRequests(content)
parseToolRequests(content) == scanFrom(content, 1, <<>>, <<>>, Rounds(content))

-----------------------------------------------------------------------------
(* The texts given to the parser *)

Field(key, value) == [key |-> key, value |-> value]

\* key:<paramStartMarker>value<paramEndMarker>
FieldText(field) ==
    field.key \o <<":">> \o config.paramStartMarker
              \o field.value \o config.paramEndMarker

RECURSIVE FieldLines(_)

\* the fields one to a line, a comma after each but the last
FieldLines(fields) ==
    IF fields = <<>> THEN <<>>
    ELSE IF Len(fields) = 1 THEN FieldText(fields[1])
    ELSE FieldText(fields[1]) \o <<",", "\n">> \o FieldLines(Tail(fields))

\* a tool-request block with these fields, as the tool descriptions show it
BlockText(fields) ==
    config.toolRequestStartMarker \o <<"\n">> \o FieldLines(fields) \o <<"\n">>
        \o config.toolRequestEndMarker

Block(fields) == [kind |-> "block", fields |-> fields, text |-> BlockText(fields)]

\* text that is not a block
Other(kind, text) == [kind |-> kind, fields |-> <<>>, text |-> text]

Ping == <<"P", "i", "n", "g">>
Calc == <<"C", "a", "l", "c">>

\* the parts a text is put together from: blocks with and without a tool
\* name, with arguments in either order, with a repeated key, with each kind
\* of archery value, with an empty tool name, with the key __proto__; text
\* without marker; an opening and a closing marker on their own
Pieces ==
    { Block(<<Field(ToolNameKey, Ping)>>),
      Block(<<Field(ToolNameKey, Calc), Field(<<"x">>, <<" ", "1", "+", "1", "\n">>),
              Field(ArcheryKey, <<"t", "r", "u", "e">>)>>),
      Block(<<Field(ArcheryKey, <<"n", "o", "_", "r", "e", "p", "l", "y">>),
              Field(<<"x">>, <<"2">>), Field(<<"x">>, <<"1", "+", "1">>),
              Field(ToolNameKey, <<" ", "C", "a", "l", "c">>)>>),
      Block(<<Field(ToolNameKey, Ping), Field(ArcheryKey, <<"y", "e", "s">>)>>),
      Block(<<Field(<<"x">>, <<"1">>)>>),
      Block(<<Field(ToolNameKey, <<" ">>), Field(<<"x">>, <<"1">>)>>),
      Block(<<Field(ToolNameKey, Ping), Field(ProtoKey, <<"1">>)>>),
      Other("text", <<"o", "k", ":", " ">>),
      Other("open", config.toolRequestStartMarker),
      Other("close", config.toolRequestEndMarker) }

\* the longest text is made of this many parts
MaxPieces == 3

PieceLists == UNION { [1 .. n -> Pieces] : n \in 0 .. MaxPieces }

RECURSIVE TextOf(_)

\* the parts one after the other
TextOf(pieces) == IF pieces = <<>> THEN <<>> ELSE pieces[1].text \o TextOf(Tail(pieces))

\* one call of parseToolRequests, with the text made of pieces. The parser
\* keeps nothing from one call to the next, so a behaviour makes one call.
ParseToolRequests(pieces) ==
    /\ parsed = NoCall
    /\ parsed' = [op |-> "parseToolRequests", pieces |-> pieces,
                  content |-> TextOf(pieces),
                  result |-> parseToolRequests(TextOf(pieces))]
    /\ UNCHANGED <<channelVars, runtimeVars, fetchVars, received, providers, options, resolved>>

ParserNext == \E pieces \in PieceLists : ParseToolRequests(pieces)

SpecParser == Init /\ [][ParserNext]_vars

-----------------------------------------------------------------------------
(* Claims about the protocol parser *)

\* a call of parseToolRequests has been made
Parsed == parsed.op = "parseToolRequests"

\* the fields of a block that have this key, by their positions
FieldsWithKey(fields, key) == { i \in DOMAIN fields : fields[i].key = key }

HasField(fields, key) == FieldsWithKey(fields, key) # {}

\* the trimmed value of the last field of the block with this key
FieldValue(fields, key) ==
    LET last == CHOOSE i \in FieldsWithKey(fields, key) :
                    \A j \in FieldsWithKey(fields, key) : j <= i
    IN  Trim(fields[last].value)

\* the argument map a block stands for: every field but tool_name and archery
ArgumentMap(fields) ==
    [key \in { fields[i].key : i \in DOMAIN fields } \ { ToolNameKey, ArcheryKey } |->
        FieldValue(fields, key)]

\* a block that names a tool
WellFormed(piece) ==
    /\ piece.kind = "block"
    /\ HasField(piece.fields, ToolNameKey)
    /\ FieldValue(piece.fields, ToolNameKey) # <<>>

\* a block that has no tool_name field
Nameless(piece) == piece.kind = "block" /\ ~HasField(piece.fields, ToolNameKey)

IsBlock(piece) == piece.kind = "block"

\* the text parsed is well-formed blocks with marker-free text around them
AllWellFormed ==
    \A i \in DOMAIN parsed.pieces :
        parsed.pieces[i].kind = "text" \/ WellFormed(parsed.pieces[i])

\* C27: parsing well-formed blocks, each with a tool name, with marker-free
\* text between them returns one invocation for each block, in the order of
\* the blocks, each with the tool name and the argument map of its block
C27_OneInvocationPerBlock ==
    (Parsed /\ AllWellFormed) =>
        LET blocks == SelectSeq(parsed.pieces, IsBlock)
            toolRequests == parsed.result.toolRequests
        IN  /\ Len(toolRequests) = Len(blocks)
            /\ \A n \in DOMAIN toolRequests :
                   /\ toolRequests[n].name = FieldValue(blocks[n].fields, ToolNameKey)
                   /\ toolRequests[n].args = ArgumentMap(blocks[n].fields)

C29_ReservedFields ==
    (Parsed /\ AllWellFormed) =>
        LET blocks == SelectSeq(parsed.pieces, IsBlock)
            toolRequests == parsed.result.toolRequests
        IN  \A n \in (DOMAIN toolRequests) \cap (DOMAIN blocks) :
                /\ toolRequests[n].archery <=>
                       /\ HasField(blocks[n].fields, ArcheryKey)
                       /\ FieldValue(blocks[n].fields, ArcheryKey)
                              \in { <<"t", "r", "u", "e">>,
                                    <<"n", "o", "_", "r", "e", "p", "l", "y">> }
                /\ ToolNameKey \notin DOMAIN toolRequests[n].args
                /\ ArcheryKey \notin DOMAIN toolRequests[n].args
                /\ \A i \in DOMAIN blocks[n].fields :
                       blocks[n].fields[i].key \notin { ToolNameKey, ArcheryKey }
                           => blocks[n].fields[i].key \in DOMAIN toolRequests[n].args

\* C30: parseToolRequests returns for every text, the search offset growing
\* with every round of its loop
C30_ScanTerminates ==
    Parsed =>
        /\ parsed.result.returned
        /\ \A i \in DOMAIN parsed.result.offsets :
               i > 1 => parsed.result.offsets[i - 1] < parsed.result.offsets[i]

\* the text had an opening marker that no closing marker follows; the scan
\* went on behind it and returned
C30_Witness ==
    /\ Parsed
    /\ \E i \in DOMAIN parsed.pieces :
           /\ parsed.pieces[i].kind = "open"
           /\ \A j \in DOMAIN parsed.pieces : j > i => parsed.pieces[j].kind \in { "open", "text" }
    /\ parsed.result.returned
    /\ Len(parsed.result.offsets) >= 2

-----------------------------------------------------------------------------
(* Claims about sessions of the distributed tool channel *)

\* the last step accepted a connection
Accepted == emitted # <<>> /\ emitted[1].event = "server_connected"

\* C34: the first frame sent on a newly accepted session is a connection_ack
\* whose data carries the serverId of the session, and an execute_tool frame
\* goes only to a socket whose session has got its serverId
C34_FirstFrameIsAckWithServerId ==
    /\ Accepted =>
           /\ outbox # <<>>
           /\ outbox[1].frame.type = "connection_ack"
           /\ "data" \in DOMAIN outbox[1].frame
           /\ outbox[1].frame.data.serverId = emitted[1].serverId
           /\ wsServerId[outbox[1].to] = emitted[1].serverId
    /\ \A n \in DOMAIN outbox :
           outbox[n].frame.type = "execute_tool" => wsServerId[outbox[n].to] # Undefined

\* C36: no two connected sessions have the same serverId, and the entry of a
\* connected session in distributedServers is its own
C36_SessionIdsUnique ==
    \A w1, w2 \in Sockets :
        (readyState[w1] = "OPEN" /\ readyState[w2] = "OPEN" /\ w1 # w2)
            => /\ wsServerId[w1] # wsServerId[w2]
               /\ distributedServers[wsServerId[w1]].ws = w1

\* onMessage for a tool_result frame, with the frame and its socket kept
OnToolResultFrom(ws, message) ==
    /\ OnToolResultFrame(ws, message)
    /\ received' = [type |-> "tool_result", ws |-> ws, requestId |-> message.requestId]

\* the channel on its own, as in Next, with the tool_result frame of a step kept
SessionsNext ==
    \/ \E ws \in Sockets :
           HandleConnection(ws) /\ received' = NoFrame
               /\ UNCHANGED <<runtimeVars, textVars, fetchVars>>
    \/ \E ws \in Sockets :
           OnRegisterTools(ws) /\ received' = NoFrame
               /\ UNCHANGED <<runtimeVars, textVars, fetchVars>>
    \/ \E ws \in Sockets, message \in ToolResultFrames :
           OnToolResultFrom(ws, message) /\ UNCHANGED <<runtimeVars, textVars, fetchVars>>
    \/ ExecuteDistributedTool /\ received' = NoFrame
           /\ UNCHANGED <<runtimeVars, textVars, fetchVars>>
    \/ \E c \in 1 .. MaxCalls :
           TimerFires(c) /\ received' = NoFrame
               /\ UNCHANGED <<runtimeVars, textVars, fetchVars>>
    \/ \E ws \in Sockets :
           BeginClose(ws) /\ received' = NoFrame
               /\ UNCHANGED <<runtimeVars, textVars, fetchVars>>
    \/ \E ws \in Sockets :
           HandleClose(ws) /\ received' = NoFrame
               /\ UNCHANGED <<runtimeVars, textVars, fetchVars>>

SpecSessions == Init /\ [][SessionsNext]_vars

\* C37: a tool_result frame settles a pending call only when it arrives on
\* the socket the execute_tool frame of the call was sent to
C37_OnlyOwnSessionSettles ==
    [][\A c \in DOMAIN calls :
           (/\ calls[c].state = "pending"
            /\ calls'[c].state # "pending"
            /\ received'.type = "tool_result")
               => received'.ws = calls[c].ws]_vars

-----------------------------------------------------------------------------
(* Further claims about the wired system *)

\* C35: an unregister_tools frame naming some of the tools of a session takes
\* exactly those off the session's tool list, and with the documented
\* listeners the session's other tools stay registered in the runtime
C35_SelectiveUnregister ==
    [][\A ws \in Sockets, tools \in UnregisterLists :
          (WiredUnregisterTools(ws, tools) /\ wsServerId[ws] \in DOMAIN distributedServers) =>
              LET serverId == wsServerId[ws]
                  listed == distributedServers[serverId].tools
                  kept == SelectSeq(listed, LAMBDA t : t \notin Range(tools))
              IN  /\ distributedServers'[serverId].tools = kept
                  /\ \A id \in Range(kept) :
                         (id \in DOMAIN plugins /\ plugins[id].serverId = serverId)
                             => /\ id \in DOMAIN plugins'
                                /\ id \in DOMAIN distributedTools'
                                /\ plugins'[id] = plugins[id]]_vars

-----------------------------------------------------------------------------
(* Further claims about the plugin runtime *)

\* C38: an id that was unloaded and not registered again is in no table that
\* executePlugin reads: executePlugin(id) fails with TOOL_NOT_FOUND for every id
\* that is not in plugins, whatever was registered and unloaded before
C38_UnloadedIsNotFound ==
    [][\A name \in PluginIds, world \in Worlds :
          (/\ returned'.op = "executePlugin"
           /\ ExecutePlugin(name, world)
           /\ name \notin DOMAIN plugins) =>
              /\ returned'.status = "threw"
              /\ returned'.value.code = "TOOL_NOT_FOUND"]_vars

\* the number of times the processor of preprocessor id ran in the
\* processMessages call of this step: a processor that returns appends the id to
\* the list, one that throws leaves a line of the logger
Runs(id) ==
    Cardinality({ i \in DOMAIN returned'.value.list : returned'.value.list[i] = id })
        + Cardinality({ i \in DOMAIN runtimeLogged' : runtimeLogged'[i].id = id })

\* C39: in a processMessages call the processor of every registered
\* preprocessor runs exactly once, and that of an id which is not registered
\* does not run, whatever was registered and unloaded before
C39_EachPreprocessorOnce ==
    [][\A messages \in MessageLists :
          (returned'.op = "processMessages" /\ ProcessMessages(messages)) =>
              \A id \in PluginIds :
                  /\ (/\ id \in DOMAIN plugins
                      /\ plugins[id].type = "preprocessor"
                      /\ plugins[id].processor # "none") => Runs(id) = 1
                  /\ id \notin DOMAIN plugins => Runs(id) = 0]_vars

-----------------------------------------------------------------------------
(* Further claims about the template engine *)

\* the keys of the placeholders in the values the registered providers give
\* for key
Refs(key) ==
    UNION { { ph.key : ph \in Range(extractPlaceholders(resolve(providers[p], key).text)) } :
            p \in Serving(key) }

\* the keys reached from the keys of frontier through the providers' values
RECURSIVE ReachedFrom(_, _)
ReachedFrom(frontier, seen) ==
    IF frontier \subseteq seen THEN seen
    ELSE ReachedFrom(UNION { Refs(k) : k \in frontier \ seen }, seen \cup frontier)

\* key can be an ancestor of itself in an expansion: some value given for it
\* leads back to it
RefersToItself(key) == key \in ReachedFrom(Refs(key), {})

\* C40: a call of resolveAll detects a circular reference only for a key that
\* is an ancestor of itself in the expansion; a key whose expansion has ended,
\* also with an error that was caught, is not on the resolution stack when the
\* placeholders next to it are expanded
C40_CircularOnlyForAncestors ==
    (resolved.op = "resolveAll" /\ options.enableRecursion) =>
        \A i \in DOMAIN resolved.logged :
            resolved.logged[i].text = "Circular dependency detected"
                => RefersToItself(resolved.logged[i].key)

-----------------------------------------------------------------------------
(* Part 5: the file fetcher (FileFetcher).  Paths and file contents are     *)
(* sequences of characters and of bytes.  fetchFile is an async function:   *)
(* each await on the file system or on a worker ends a step, and calls      *)
(* can overlap.  What a call read, wrote and sent is kept in its `effects`. *)

\* number of fetchFile calls made during a run
MaxFetches == 2

\* filePath.startsWith(prefix), filePath.substring(n)
startsWith(text, prefix) ==
    Len(text) >= Len(prefix) /\ SubSeq(text, 1, Len(prefix)) = prefix
substring(text, n) == SubSeq(text, n + 1, Len(text))

FilePrefix == <<"f", "i", "l", "e", ":", "/", "/">>

\* const normalizedPath = filePath.startsWith('file://') ? filePath.substring(7) : filePath
normalizedPath(filePath) ==
    IF startsWith(filePath, FilePrefix) THEN substring(filePath, 7) ELSE filePath

\* the largest of a non-empty set of numbers
Largest(S) == CHOOSE n \in S : \A m \in S : m <= n

\* path.extname(filePath), for a path that does not end with a separator and
\* whose base name is not '..': from the last dot of the base name on, empty
\* when there is none or when it is the first character of the base name
extname(filePath) ==
    LET slashes == { i \in DOMAIN filePath : filePath[i] = "/" }
        start == IF slashes = {} THEN 1 ELSE Largest(slashes) + 1
        dots == { i \in start .. Len(filePath) : filePath[i] = "." }
    IN  IF dots = {} \/ Largest(dots) = start THEN <<>>
        ELSE SubSeq(filePath, Largest(dots), Len(filePath))

\* crypto.createHash('sha256').update(filePath).digest('hex'): the digest is
\* taken to be collision free, so the key stands for the path it was made of
\* and says nothing else about it
getCacheKey(filePath) == [sha256 |-> filePath]

\* path.join(this.cacheDir, cacheKey + extension): the name of the file in cacheDir
cachedFilePath(filePath) == <<getCacheKey(filePath), extname(filePath)>>

UpperCase == <<"A", "B", "C", "D", "E", "F", "G", "H", "I", "J", "K", "L", "M",
               "N", "O", "P", "Q", "R", "S", "T", "U", "V", "W", "X", "Y", "Z">>
LowerCase == <<"a", "b", "c", "d", "e", "f", "g", "h", "i", "j", "k", "l", "m",
               "n", "o", "p", "q", "r", "s", "t", "u", "v", "w", "x", "y", "z">>

\* extension.toLowerCase()
toLowerCase(text) ==
    [i \in DOMAIN text |->
        IF \E n \in DOMAIN UpperCase : UpperCase[n] = text[i]
        THEN LowerCase[CHOOSE n \in DOMAIN UpperCase : UpperCase[n] = text[i]]
        ELSE text[i]]

\* private static readonly MIME_TYPES
MIME_TYPES ==
    (<<".", "j", "p", "g">> :> "image/jpeg")
    @@ (<<".", "j", "p", "e", "g">> :> "image/jpeg")
    @@ (<<".", "p", "n", "g">> :> "image/png")
    @@ (<<".", "g", "i", "f">> :> "image/gif")
    @@ (<<".", "w", "e", "b", "p">> :> "image/webp")
    @@ (<<".", "s", "v", "g">> :> "image/svg+xml")
    @@ (<<".", "p", "d", "f">> :> "application/pdf")
    @@ (<<".", "t", "x", "t">> :> "text/plain")
    @@ (<<".", "j", "s", "o", "n">> :> "application/json")
    @@ (<<".", "x", "m", "l">> :> "application/xml")
    @@ (<<".", "h", "t", "m", "l">> :> "text/html")
    @@ (<<".", "c", "s", "s">> :> "text/css")
    @@ (<<".", "j", "s">> :> "application/javascript")

\* FileFetcher.MIME_TYPES[extension.toLowerCase()] || 'application/octet-stream'
getMimeType(extension) ==
    IF toLowerCase(extension) \in DOMAIN MIME_TYPES
    THEN MIME_TYPES[toLowerCase(extension)]
    ELSE "application/octet-stream"

\* the FileResult objects
FileResult(buffer, filePath, fromCache, source) ==
    [buffer |-> buffer, mimeType |-> getMimeType(extname(filePath)),
     size |-> Len(buffer), fromCache |-> fromCache, source |-> source]

NoResult == [isNull |-> TRUE]

\* base^n
RECURSIVE Power(_, _)
Power(base, n) == IF n = 0 THEN 1 ELSE base * Power(base, n - 1)

\* the number whose base-64 digits are sextets
RECURSIVE SextetsValue(_)
SextetsValue(sextets) ==
    IF sextets = <<>> THEN 0
    ELSE 64 * SextetsValue(SubSeq(sextets, 1, Len(sextets) - 1)) + sextets[Len(sextets)]

\* Buffer.from(content, 'base64'), content given by the values of its digits
\* (the padding left out): every 4 digits give 3 bytes, the bits of the last
\* group that do not fill a byte are dropped
BufferFromBase64(content) ==
    LET size == (6 * Len(content)) \div 8
        spare == (6 * Len(content)) - (8 * size)
        bits == SextetsValue(content) \div Power(2, spare)
    IN  [j \in 1 .. size |-> (bits \div Power(256, size - j)) % 256]

-----------------------------------------------------------------------------
(* fetchFile *)

\* a fetchFile(filePath) call: where it stands (pc), the entries of
\* this.distributedServers it iterates over and the one it waits for (at), the
\* requestId of its fetch_file frame, and how it ended
NewFetch(filePath) ==
    [filePath |-> filePath, normalizedPath |-> normalizedPath(filePath),
     pc |-> "cache", status |-> "pending", result |-> NoResult, error |-> NoError,
     servers |-> <<>>, at |-> 0, requestId |-> NoRequestId, saved |-> FALSE,
     effects |-> <<>>]

\* the effects of a call
Effect(kind) == [kind |-> kind, ws |-> 0]
EffectOn(kind, ws) == [kind |-> kind, ws |-> ws]

\* a hit that is not counted
countHit_NotCounted(counters) == counters

\* this.stats.hits++
countHit(counters) == [counters EXCEPT !.hits = @ + 1]

\* this.stats.misses++
countMiss(counters) == [counters EXCEPT !.misses = @ + 1]

\* the cache entry written under the path as it was given to fetchFile
savedAs_PathAsGiven(call) == cachedFilePath(call.filePath)

\* await this.saveToCache(normalizedPath, buffer): the file the call writes
savedAs(call) == cachedFilePath(call.normalizedPath)

\* a loop over the workers that ends at the first one that fails
nextServer_EndsTheLoop(servers, at) == Len(servers) + 1

\* catch (error) { ...; continue; } in fetchFromDistributedNode: the entry
\* after the one that failed
nextServer(servers, at) == at + 1

\* throw new VCPError(TOOL_EXECUTION_FAILED, `Failed to fetch file: ${normalizedPath}`,
\*                    { filePath: normalizedPath })
fetchFailed(call) ==
    [call EXCEPT !.pc = "done", !.status = "threw",
                 !.error = VCPError("TOOL_EXECUTION_FAILED", "Failed to fetch file",
                                    [filePath |-> call.normalizedPath])]

\* the fetch_file frames sent so far; the requestId `file-${Date.now()}-${9
\* base-36 digits of Math.random()}` is taken to be collision free: the id of
\* the n-th frame is n
FetchFrames ==
    UNION { { <<c, i>> : i \in { j \in DOMAIN fetches[c].effects :
                                    fetches[c].effects[j].kind = "send" } } :
            c \in DOMAIN fetches }

\* the loop of fetchFromDistributedNode from entry `at` on, up to its next
\* await that waits for a worker: requestFileFromNode rejects at once for a
\* socket that is not OPEN, and sends fetch_file and waits on one that is.  After the
\* last entry the loop returns null and fetchFile throws
RECURSIVE fetchFromDistributedNode(_, _)
fetchFromDistributedNode(call, at) ==
    IF at > Len(call.servers)
    THEN [call |-> fetchFailed(call), sent |-> <<>>]
    ELSE LET ws == call.servers[at].ws
             requestId == Cardinality(FetchFrames) + 1
         IN  IF readyState[ws] = "OPEN"
             THEN [call |-> [call EXCEPT !.pc = "waiting", !.at = at,
                                         !.requestId = requestId,
                                         !.effects = Append(@, EffectOn("send", ws))],
                   sent |-> <<[to |-> ws,
                               frame |-> [type |-> "fetch_file", requestId |-> requestId,
                                          filePath |-> call.normalizedPath]]>>]
             ELSE fetchFromDistributedNode(
                      [call EXCEPT !.effects = Append(@, EffectOn("notOpen", ws))],
                      nextServer(call.servers, at))

\* what the steps of the fetcher leave alone
FetcherOnly ==
    /\ emitted' = <<>>
    /\ UNCHANGED <<readyState, wsServerId, distributedServers, pendingRequests, calls,
                   runtimeVars, textVars, received>>

\* fetchFile(filePath) up to the end of Layer 1: the call reads
\* <cacheDir>/<key><ext>; a hit is counted and returned, a miss is counted
FetchFile(filePath) ==
    /\ Len(fetches) < MaxFetches
    /\ LET call == [NewFetch(filePath) EXCEPT !.effects = <<Effect("readCache")>>]
           name == cachedFilePath(call.normalizedPath)
       IN  IF name \in DOMAIN cacheFiles
           THEN /\ stats' = countHit(stats)
                /\ fetches' = Append(fetches,
                       [call EXCEPT !.pc = "done", !.status = "returned",
                                    !.result = FileResult(cacheFiles[name],
                                                          call.normalizedPath,
                                                          TRUE, "local")])
           ELSE /\ stats' = countMiss(stats)
                /\ fetches' = Append(fetches, [call EXCEPT !.pc = "local"])
    /\ outbox' = <<>>
    /\ warned' = <<>>
    /\ FetcherOnly
    /\ UNCHANGED <<localFiles, cacheFiles, linked>>

\* Layer 2, and the start of Layer 3 when the local read fails: the loop runs
\* over the entries of the Map that this.distributedServers holds now
FetchFromLocal(c) ==
    /\ c \in DOMAIN fetches
    /\ fetches[c].pc = "local"
    /\ LET call == [fetches[c] EXCEPT !.effects = Append(@, Effect("readLocal"))]
           path == call.normalizedPath
       IN  IF path \in DOMAIN localFiles
           THEN /\ fetches' = [fetches EXCEPT ![c] =
                       [call EXCEPT !.pc = "save",
                                    !.result = FileResult(localFiles[path], path,
                                                          FALSE, "local")]]
                /\ outbox' = <<>>
           ELSE LET asked == fetchFromDistributedNode(
                                 [call EXCEPT !.servers = IF linked.isNull THEN <<>>
                                                          ELSE linked.servers],
                                 1)
                IN  /\ fetches' = [fetches EXCEPT ![c] = asked.call]
                    /\ outbox' = asked.sent
    /\ warned' = <<>>
    /\ FetcherOnly
    /\ UNCHANGED <<localFiles, cacheFiles, stats, linked>>

\* saveToCache, then the return of fetchFile: a failed write is logged and
\* the call returns all the same
SaveToCache(c) ==
    /\ c \in DOMAIN fetches
    /\ fetches[c].pc = "save"
    /\ \E written \in BOOLEAN :
           /\ cacheFiles' = IF written
                            THEN MapSet(cacheFiles, savedAs(fetches[c]),
                                        fetches[c].result.buffer)
                            ELSE cacheFiles
           /\ fetches' = [fetches EXCEPT ![c] =
                  [@ EXCEPT !.pc = "done", !.status = "returned", !.saved = written,
                            !.effects = Append(@, Effect(IF written THEN "writeCache"
                                                         ELSE "writeFailed"))]]
           /\ warned' = IF written THEN <<>>
                        ELSE <<[text |-> "Failed to cache file", id |-> c]>>
    /\ outbox' = <<>>
    /\ FetcherOnly
    /\ UNCHANGED <<localFiles, stats, linked>>

\* the file_result frames of a worker that carry the id of a request that is
\* waiting (a frame with another id changes nothing but the log); content is
\* base64, by the values of its digits
\* ('' and 'QQ==')
FileContents == { <<>>, <<16, 16>> }

FileResultFrames ==
    [type : {"file_result"},
     requestId : { fetches[c].requestId : c \in { w \in DOMAIN fetches :
                                                      fetches[w].pc = "waiting" } },
     success : BOOLEAN,
     content : FileContents]

\* the calls whose handler on ws takes the frame
Awaiting(ws, msg) ==
    { c \in DOMAIN fetches :
        /\ fetches[c].pc = "waiting"
        /\ fetches[c].servers[fetches[c].at].ws = ws
        /\ msg.type = "file_result"
        /\ msg.requestId = fetches[c].requestId }

\* a frame of type file_result arrives on ws: the channel's onMessage logs an
\* unknown type, the handler of the request with that id resolves or rejects
\* its promise, and a rejected call goes on with the next entry
OnFileResult(ws, msg) ==
    /\ readyState[ws] = "OPEN"
    /\ warned' = <<[text |-> "Unknown message type", id |-> wsServerId[ws]]>>
    /\ IF Awaiting(ws, msg) = {}
       THEN /\ outbox' = <<>>
            /\ UNCHANGED fetches
       ELSE LET c == CHOOSE c \in Awaiting(ws, msg) : TRUE
                call == fetches[c]
            IN  IF msg.success /\ msg.content # <<>>
                THEN /\ fetches' = [fetches EXCEPT ![c] =
                            [call EXCEPT !.pc = "save",
                                         !.result = FileResult(
                                             BufferFromBase64(msg.content),
                                             call.normalizedPath, FALSE, "distributed")]]
                     /\ outbox' = <<>>
                ELSE LET asked == fetchFromDistributedNode(
                                      [call EXCEPT !.effects =
                                           Append(@, EffectOn("rejected", ws))],
                                      nextServer(call.servers, call.at))
                     IN  /\ fetches' = [fetches EXCEPT ![c] = asked.call]
                         /\ outbox' = asked.sent
    /\ FetcherOnly
    /\ UNCHANGED <<localFiles, cacheFiles, stats, linked>>

\* the 30 s timer of a request fires: 'File fetch timeout'
FetchTimeout(c) ==
    /\ c \in DOMAIN fetches
    /\ fetches[c].pc = "waiting"
    /\ LET call == fetches[c]
           asked == fetchFromDistributedNode(
                        [call EXCEPT !.effects =
                             Append(@, EffectOn("timeout", call.servers[call.at].ws))],
                        nextServer(call.servers, call.at))
       IN  /\ fetches' = [fetches EXCEPT ![c] = asked.call]
           /\ outbox' = asked.sent
    /\ warned' = <<>>
    /\ FetcherOnly
    /\ UNCHANGED <<localFiles, cacheFiles, stats, linked>>

\* fileFetcher.setDistributedServers(channel.getDistributedServers()): the
\* fetcher gets a copy of the channel's Map as it is now.  An id made later
\* is a larger number, so the Map's order is the order of the ids
setDistributedServers ==
    LET ids == DOMAIN distributedServers
        rank(id) == Cardinality({ other \in ids : other <= id })
    IN  [isNull |-> FALSE,
         servers |-> [n \in 1 .. Cardinality(ids) |->
                         LET id == CHOOSE id \in ids : rank(id) = n
                         IN  [serverId |-> id, ws |-> distributedServers[id].ws]]]

SetDistributedServers ==
    /\ linked' = setDistributedServers
    /\ linked' # linked
    /\ outbox' = <<>>
    /\ warned' = <<>>
    /\ FetcherOnly
    /\ UNCHANGED <<localFiles, cacheFiles, stats, fetches>>

\* clearCache: every file of cacheDir is unlinked
ClearCache ==
    /\ cacheFiles # EmptyMap
    /\ cacheFiles' = EmptyMap
    /\ outbox' = <<>>
    /\ warned' = <<>>
    /\ FetcherOnly
    /\ UNCHANGED <<localFiles, stats, linked, fetches>>

\* the paths given to fetchFile: a file, and the same with the file:// prefix
PathA == <<"a", ".", "J", "S">>
FilePaths == { PathA, FilePrefix \o PathA }

\* what the files outside the cache hold
LocalContents == { <<67>> }

\* the environment writes or removes a file outside the cache
WriteLocalFile(path, bytes) ==
    /\ IF path \in DOMAIN localFiles THEN localFiles[path] # bytes ELSE TRUE
    /\ localFiles' = MapSet(localFiles, path, bytes)
    /\ outbox' = <<>>
    /\ warned' = <<>>
    /\ FetcherOnly
    /\ UNCHANGED <<cacheFiles, stats, linked, fetches>>

RemoveLocalFile(path) ==
    /\ path \in DOMAIN localFiles
    /\ localFiles' = MapDelete(localFiles, path)
    /\ outbox' = <<>>
    /\ warned' = <<>>
    /\ FetcherOnly
    /\ UNCHANGED <<cacheFiles, stats, linked, fetches>>

\* the fetcher next to the channel whose sessions it is given
FetchNext ==
    \/ \E ws \in Sockets : HandleConnection(ws) /\ UNCHANGED <<runtimeVars, textVars, fetchVars, received>>
    \/ \E ws \in Sockets : HandleClose(ws) /\ UNCHANGED <<runtimeVars, textVars, fetchVars, received>>
    \/ SetDistributedServers
    \/ \E filePath \in FilePaths : FetchFile(filePath)
    \/ \E c \in 1 .. MaxFetches : FetchFromLocal(c)
    \/ \E c \in 1 .. MaxFetches : SaveToCache(c)
    \/ \E ws \in Sockets, msg \in FileResultFrames : OnFileResult(ws, msg)
    \/ \E c \in 1 .. MaxFetches : FetchTimeout(c)
    \/ ClearCache
    \/ \E path \in {PathA}, bytes \in LocalContents : WriteLocalFile(path, bytes)
    \/ \E path \in {PathA} : RemoveLocalFile(path)

SpecFetch == Init /\ [][FetchNext]_vars

-----------------------------------------------------------------------------
(* Claims about the file fetcher *)

\* the kinds of the effects of a call, in order
Kinds(call) == [i \in DOMAIN call.effects |-> call.effects[i].kind]

\* the call has a FileResult
HasResult(call) == "buffer" \in DOMAIN call.result

\* the sockets of the workers the call turned to, in order
Asked(call) ==
    LET turns == SelectSeq(call.effects, LAMBDA e : e.kind \in {"send", "notOpen"})
    IN  [i \in DOMAIN turns |-> turns[i].ws]

\* the call went through the layers in the order cache, file system, workers,
\* and did nothing after the layer that gave it the file but write the cache
LayersInOrder(call) ==
    LET kinds == Kinds(call)
    IN  /\ kinds # <<>> /\ kinds[1] = "readCache"
        /\ \A i \in DOMAIN kinds :
              /\ kinds[i] = "readCache" => i = 1
              /\ kinds[i] = "readLocal" => i = 2
              /\ kinds[i] \in {"send", "notOpen"} =>
                     /\ i > 2
                     /\ kinds[2] = "readLocal"
                     /\ \A j \in 3 .. (i - 1) : kinds[j] # "send" \/ kinds[j + 1] # kinds[j]
                     /\ kinds[i - 1] \in {"readLocal", "notOpen", "rejected", "timeout"}
              /\ kinds[i] \in {"writeCache", "writeFailed"} => i = Len(kinds)
        /\ HasResult(call) =>
              /\ call.result.fromCache => kinds = <<"readCache">>
              /\ (call.result.source = "local" /\ ~call.result.fromCache) =>
                     \A i \in DOMAIN kinds : kinds[i] \notin {"send", "notOpen"}
              /\ call.result.source = "distributed" =>
                     \E i \in DOMAIN kinds :
                         /\ kinds[i] = "send"
                         /\ \A j \in (i + 1) .. Len(kinds) :
                                kinds[j] \in {"writeCache", "writeFailed"}

Linked(call) == [k \in DOMAIN call.servers |-> call.servers[k].ws]

\* C33: a call that finds the file neither in the cache nor in the file system
\* nor at a linked worker throws TOOL_EXECUTION_FAILED naming the path, after
\* it turned to every linked worker; with no worker linked it sends no frame;
\* after a worker that is not OPEN, fails or times out the call turns to the
\* next one
C33_FailsAfterEveryLayer ==
    [][/\ \A c \in DOMAIN fetches' :
             LET call == fetches'[c]
             IN  /\ call.status = "threw" =>
                        /\ call.error.code = "TOOL_EXECUTION_FAILED"
                        /\ call.error.details.filePath = normalizedPath(call.filePath)
                        /\ {"readCache", "readLocal"} \subseteq Range(Kinds(call))
                        /\ Asked(call) = Linked(call)
                        /\ ~HasResult(call)
                 /\ \E n \in 0 .. Len(call.servers) :
                        Asked(call) = SubSeq(Linked(call), 1, n)
                 /\ \A i \in DOMAIN call.effects :
                        (/\ call.effects[i].kind \in {"notOpen", "rejected", "timeout"}
                         /\ call.effects[i].ws # call.servers[Len(call.servers)].ws)
                            => /\ i < Len(call.effects)
                               /\ call.effects[i + 1].kind \in {"send", "notOpen"}
       /\ \A c \in DOMAIN fetches :
             (/\ FetchFromLocal(c)
              /\ fetches[c].normalizedPath \notin DOMAIN localFiles
              /\ (linked.isNull \/ linked.servers = <<>>)) =>
                 /\ outbox' = <<>>
                 /\ fetches'[c].status = "threw"
       /\ \A n \in DOMAIN outbox' :
             outbox'[n].frame.type = "fetch_file" =>
                 /\ ~linked.isNull
                 /\ readyState[outbox'[n].to] = "OPEN"]_vars

\* a call threw after a worker that was not OPEN, one that answered without
\* the file or timed out
C33_Witness ==
    \E c \in DOMAIN fetches :
        /\ fetches[c].status = "threw"
        /\ Len(fetches[c].servers) = 2
        /\ \E i \in DOMAIN fetches[c].effects :
              /\ fetches[c].effects[i].kind \in {"rejected", "timeout"}
              /\ i < Len(fetches[c].effects)

====
